---- MODULE Spec2Model ----
(***************************************************************************)
(* The NotebookLM scripts.                                                 *)
(*                                                                         *)
(* Spec, SpecDos, SpecJusta: the generation scheduler, generar_artefactos  *)
(* of common.py (used by ver_cuaderno.py) and of main.py.  Every await of  *)
(* the coroutine (the inter-task delay, the generation call, the           *)
(* wait_for_completion call) is a step boundary, and the external service  *)
(* chooses each answer.                                                    *)
(* SpecIdioma: artefacto_tiene_idioma.                                     *)
(* SpecUrls: obtener_urls_artefactos and the decoder of raw artifacts.     *)
(* SpecEscaner: verificar_artefactos_existentes.                           *)
(* SpecDecod: extraer_url_de_artefacto_raw, the decoder alone.             *)
(* SpecEstado: mostrar_estado_artefactos and the state loop of main.py.    *)
(* SpecRepeticion: two scans in a row of a service that stays as it is.    *)
(* SpecCuaderno: procesar_cuaderno of ver_cuaderno.py.                     *)
(* SpecVideo, SpecVideoJusta: procesar_video of main.py.                   *)
(* SpecKwargs: the scheduler with the arguments of each generation call.   *)
(* SpecLlamadores: either caller of the scan and of the scheduler.         *)
(* SpecDosVideos: procesar_video run twice for one URL, with the notebook  *)
(* name and the search prefix computed from the URL.                       *)
(* SpecEquivalencia: both generar_artefactos as functions of the list and  *)
(* of the answers of the service.                                          *)
(* SpecListar: listar_cuadernos of listar_cuadernos.py.                    *)
(* Each specification runs one function and the functions it calls; the   *)
(* variables of the others keep their idle values.                         *)
(***************************************************************************)
EXTENDS Integers, Sequences, FiniteSets, TLC

\* Longest list of kinds generar_artefactos is called with.
MaxFaltantes == 3

\* Longest list of kinds where invocations are repeated or run under
\* fairness.
MaxListaCorta == 2

\* Number of successive invocations of generar_artefactos.
MaxInvocaciones == 2

\* The two modules that define generar_artefactos.
Modulos == {"common", "main"}

\* Python's None, where it stands for a missing quota group.
None == "None"

(***************************************************************************)
(* Artifact type registry.                                                 *)
(***************************************************************************)

\* Variant of ORDEN_ARTEFACTOS: audio is generated first.
OrdenConAudioPrimero(m) ==
    IF m = "common"
    THEN <<"audio", "report", "mind_map", "data_table", "slides",
           "infographic", "quiz", "flashcards", "video">>
    ELSE <<"audio", "report", "slides", "infographic">>

\* ORDEN_ARTEFACTOS of module m: the canonical order.
ORDEN_ARTEFACTOS(m) ==
    IF m = "common"
    THEN <<"report", "mind_map", "data_table", "slides", "infographic",
           "quiz", "flashcards", "audio", "video">>
    ELSE <<"report", "slides", "infographic", "audio">>

\* TIPOS_ARTEFACTOS of module m: kind -> tiene_limite_diario.
TIPOS_ARTEFACTOS(m) ==
    IF m = "common"
    THEN [t \in {"report", "mind_map", "data_table", "slides", "infographic",
                 "quiz", "flashcards", "audio", "video"} |->
             t \in {"slides", "infographic", "quiz", "flashcards", "audio", "video"}]
    ELSE [t \in {"report", "slides", "infographic", "audio"} |->
             t \in {"slides", "infographic", "audio"}]

\* CUOTA_COMPARTIDA: kind -> quota group (the same table in both modules).
CUOTA_COMPARTIDA == [t \in {"slides", "infographic"} |-> "premium"]

\* ARTEFACTOS_SINCRONOS: kinds whose generation call returns a dict, not a
\* GenerationStatus.  main.py has no such kind.
ARTEFACTOS_SINCRONOS(m) == IF m = "common" THEN {"mind_map"} ELSE {}

\* CONFIG_ARTEFACTOS of module m: kind -> whether kwargs carries 'language'.
CONFIG_ARTEFACTOS(m) ==
    IF m = "common"
    THEN [t \in {"report", "mind_map", "data_table", "slides", "infographic",
                 "quiz", "flashcards", "audio", "video"} |->
             t \notin {"mind_map", "quiz", "flashcards"}]
    ELSE [t \in {"report", "slides", "infographic", "audio"} |-> TRUE]

(***************************************************************************)
(* Inputs.                                                                 *)
(***************************************************************************)

\* The list a caller script passes: the requested (and missing) kinds,
\* filtered out of ORDEN_ARTEFACTOS.
ListaDelLlamador(m, solicitados) ==
    SelectSeq(ORDEN_ARTEFACTOS(m), LAMBDA t : t \in solicitados)

\* Duplicate-free lists over S of length at most n.
ListasSinRepetir(S, n) ==
    { s \in UNION { [1..k -> S] : k \in 0..n } :
        \A a, b \in DOMAIN s : a # b => s[a] # s[b] }

\* The lists generar_artefactos of module m is called with: those the
\* scripts build (in canonical order), and lists in any order from a direct
\* call.  A list names each kind at most once.
Entradas(m) ==
    { ListaDelLlamador(m, S) :
        S \in { X \in SUBSET (DOMAIN CONFIG_ARTEFACTOS(m)) :
                  Cardinality(X) <= MaxFaltantes } }
    \cup ListasSinRepetir(DOMAIN CONFIG_ARTEFACTOS(m), MaxFaltantes)

\* The same lists, of length at most MaxListaCorta.
EntradasCortas(m) ==
    { ListaDelLlamador(m, S) :
        S \in { X \in SUBSET (DOMAIN CONFIG_ARTEFACTOS(m)) :
                  Cardinality(X) <= MaxListaCorta } }
    \cup ListasSinRepetir(DOMAIN CONFIG_ARTEFACTOS(m), MaxListaCorta)

\* Answers of the external service to an asynchronous generation call:
\* None, or a GenerationStatus.  is_rate_limited may be absent; task_id ""
\* is no task identifier.
RespuestasAsincronas ==
    { [clase |-> "None"] }
    \cup [ clase : {"GenerationStatus"},
           status : {"failed", "pending"},
           is_rate_limited : {"absent", "False", "True"},
           task_id : {"", "task"} ]

\* Answers to generate_mind_map: None, an empty dict, a dict without
\* content, a dict with content.
RespuestasSincronas ==
    { [clase |-> "None"], [clase |-> "dict", vacio |-> TRUE, mind_map |-> ""],
      [clase |-> "dict", vacio |-> FALSE, mind_map |-> ""],
      [clase |-> "dict", vacio |-> FALSE, mind_map |-> "nodes"] }

\* Exceptions the external client raises (subclasses of Exception).
Excepciones == {"RPCError", "TimeoutError"}

\* No response held.
SinResultado == [clase |-> "unbound"]

(***************************************************************************)
(* Python values.  A str is a sequence of one-character strings; a value   *)
(* of a raw payload carries its class, so that isinstance can be asked of  *)
(* it.                                                                     *)
(***************************************************************************)

Str_es == <<"e", "s">>
Str_EN == <<"E", "N">>
Str_esES == <<"e", "s", "-", "E", "S">>
Str_enUS == <<"e", "n", "-", "U", "S">>
Str_http == <<"h", "t", "t", "p">>
Str_url_u == <<"h", "t", "t", "p", ":", "u">>
Str_url_w == <<"h", "t", "t", "p", "s", ":", "w">>
Str_ftp == <<"f", "t", "p", ":", "u">>
Str_audio_mp4 == <<"a", "u", "d", "i", "o", "/", "m", "p", "4">>
Str_video_mp4 == <<"v", "i", "d", "e", "o", "/", "m", "p", "4">>
Str_titulo == <<"t">>

\* str.lower() on one character.
Minuscula(c) ==
    CASE c = "A" -> "a" [] c = "B" -> "b" [] c = "C" -> "c"
      [] c = "D" -> "d" [] c = "E" -> "e" [] c = "F" -> "f"
      [] c = "G" -> "g" [] c = "H" -> "h" [] c = "I" -> "i"
      [] c = "J" -> "j" [] c = "K" -> "k" [] c = "L" -> "l"
      [] c = "M" -> "m" [] c = "N" -> "n" [] c = "O" -> "o"
      [] c = "P" -> "p" [] c = "Q" -> "q" [] c = "R" -> "r"
      [] c = "S" -> "s" [] c = "T" -> "t" [] c = "U" -> "u"
      [] c = "V" -> "v" [] c = "W" -> "w" [] c = "X" -> "x"
      [] c = "Y" -> "y" [] c = "Z" -> "z"
      [] OTHER -> c

\* Variant of lower: the case is kept.
SinMinusculas(s) == s

\* s.lower()
lower(s) == [n \in DOMAIN s |-> Minuscula(s[n])]

\* Variant of startswith: the whole string must be equal.
igual_a(s, prefijo) == s = prefijo

\* s.startswith(prefijo)
startswith(s, prefijo) ==
    /\ Len(prefijo) <= Len(s)
    /\ SubSeq(s, 1, Len(prefijo)) = prefijo

\* Values of a raw payload: None, int, str, list.
Nada == [clase |-> "None", v |-> 0]
Ent(n) == [clase |-> "int", v |-> n]
Cad(s) == [clase |-> "str", v |-> s]
Lis(s) == [clase |-> "list", v |-> s]

\* n times None.
Relleno(n) == [x \in 1..n |-> Nada]

\* The language attribute of an artifact record: missing, None, or a str.
SinAtributo == [clase |-> "absent", v |-> <<>>]
LanguageNone == [clase |-> "None", v |-> <<>>]
Language(s) == [clase |-> "str", v |-> s]

VARIABLES
    modulo,           \* which module's generar_artefactos runs
    faltantes,        \* the list received
    pc,               \* position of the coroutine
    i,                \* loop index of enumerate(faltantes), from 0
    exitosos,         \* success counter
    cuotas_agotadas,  \* set of exhausted quota groups
    resultado,        \* resultado (common.py) / status (main.py) of this iteration
    estado,           \* per kind: what the run reported for it
    despachos,        \* generation calls issued, in order
    retardos,         \* inter-task delays awaited
    enVuelo,          \* requests to the external client not yet answered
    excepcion,        \* e of "except Exception as e" in this iteration
    retorno,          \* value returned, -1 before the return
    invocacion,       \* number of the invocation under way, from 1
    previas,          \* quota groups earlier invocations saw exhausted
    idioma_g,         \* generar_artefactos: parameter idioma
    kwargs_enviados,  \* kwargs of the generation calls issued, in order
    artefacto,        \* artefacto_tiene_idioma: the record examined
    idioma_filtro,    \* artefacto_tiene_idioma: parameter idioma
    coincide,         \* artefacto_tiene_idioma: value returned
    artifacts_raw,    \* obtener_urls_artefactos: answer of _list_raw
    fase_u,           \* obtener_urls_artefactos: position
    j,                \* obtener_urls_artefactos: index of the loop, from 1
    urls,             \* obtener_urls_artefactos: the mapping, one entry per id
    error_u,          \* obtener_urls_artefactos: exception caught
    idioma,           \* verificar_artefactos_existentes: parameter idioma
    contenido,        \* artifact records the notebook holds
    fase,             \* verificar_artefactos_existentes: position
    k,                \* verificar_artefactos_existentes: index of the kind queried
    existentes,       \* verificar_artefactos_existentes: the snapshot
    fallo,            \* kind whose listing query raised in the last step
    consultas,        \* queries issued to the client, in order
    raw_d,            \* extraer_url_de_artefacto_raw: parameter artifact_raw
    tipo_d,           \* extraer_url_de_artefacto_raw: parameter artifact_type
    salida_d,         \* extraer_url_de_artefacto_raw: how the call ended
    snapshot,         \* mostrar_estado_artefactos: argument existentes
    salida_e,         \* mostrar_estado_artefactos: how the call ended
    pc_c,             \* procesar_cuaderno: position of the coroutine
    notebook_id,      \* procesar_cuaderno: parameter notebook_id
    solicitados_c,    \* procesar_cuaderno: parameter artefactos_solicitados
    cuadernos,        \* procesar_cuaderno: ids client.notebooks.list() returned
    local_existentes, \* procesar_cuaderno: value bound to its local existentes
    retorno_c,        \* procesar_cuaderno: how the call ended
    averiadas,        \* kinds whose listing query raises, while the service stays as it is
    raw_servicio,     \* what _list_raw answers, while the service stays as it is
    llamada,          \* number of the scan under way, from 1
    primera,          \* what the first scan returned
    pc_v,             \* procesar_video: position of the coroutine
    url_v,            \* procesar_video: whether url names a YouTube video
    solicitados_v,    \* procesar_video: parameter artefactos_solicitados
    informe_flag,     \* procesar_video: parameter mostrar_informe_flag
    origen_v,         \* procesar_video: notebook found, created, or none yet
    fuente_v,         \* procesar_video: how adding the source ended
    informe_v,        \* procesar_video: how mostrar_informe ended
    retorno_v,        \* procesar_video: how the call ended
    metadatos_v,      \* procesar_video: how obtener_metadatos_video ended
    contactos,        \* procesar_video: its own calls to the NotebookLM client
    url_texto,        \* procesar_video: parameter url, as urlparse splits it
    titulos_previos,  \* titles of the notebooks the account held before the first run
    creados_antes,    \* titles of the notebooks an earlier run created
    ejecucion,        \* number of the run of procesar_video under way, from 1
    lista_q,          \* both generar_artefactos: the list received
    guion,            \* the answers of the external service, per iteration
    salida_q,         \* what each generar_artefactos did with them
    notebooks_l,      \* listar_cuadernos: what client.notebooks.list() holds
    ordenar_por,      \* listar_cuadernos: --ordenar
    descendente,      \* listar_cuadernos: --desc
    filtro_idioma,    \* listar_cuadernos: --idioma, or None
    salida_l          \* listar_cuadernos: what the run printed

\* The variables of one invocation of generar_artefactos.
varsGen == <<modulo, faltantes, pc, i, exitosos, cuotas_agotadas, resultado,
             estado, despachos, retardos, enVuelo, excepcion, retorno,
             idioma_g, kwargs_enviados>>

\* The variables that span invocations.
varsInv == <<invocacion, previas>>

\* The variables of artefacto_tiene_idioma.
varsIdioma == <<artefacto, idioma_filtro, coincide>>

\* The variables of obtener_urls_artefactos.
varsUrls == <<artifacts_raw, fase_u, j, urls, error_u>>

\* The variables of verificar_artefactos_existentes.
varsEscaner == <<idioma, contenido, fase, k, existentes, fallo, consultas>>

\* The variables of the functions other than generar_artefactos.
\* The variables of one call of extraer_url_de_artefacto_raw.
varsDecod == <<raw_d, tipo_d, salida_d>>

\* The variables of one call of mostrar_estado_artefactos (common.py) or of
\* one run of the state loop of procesar_video (main.py).
varsEstado == <<snapshot, salida_e>>

\* The variables of procesar_cuaderno of ver_cuaderno.py.
varsCuaderno == <<pc_c, notebook_id, solicitados_c, cuadernos,
                  local_existentes, retorno_c>>

\* The variables of two scans in a row.
varsRepeticion == <<averiadas, raw_servicio, llamada, primera>>

\* The variables of procesar_video of main.py.
varsVideo == <<pc_v, url_v, solicitados_v, informe_flag, origen_v, fuente_v,
               informe_v, retorno_v, metadatos_v, contactos>>

\* The variables of two runs of procesar_video for the same URL.
varsDosVideos == <<url_texto, titulos_previos, creados_antes, ejecucion>>

\* The variables of the two generar_artefactos run on the same answers.
varsEquivalencia == <<lista_q, guion, salida_q>>

\* The variables of listar_cuadernos.
varsListar == <<notebooks_l, ordenar_por, descendente, filtro_idioma,
                salida_l>>

\* The variables of the functions modelled last.
varsFinal == <<varsDosVideos, varsEquivalencia, varsListar>>

\* The variables of the functions modelled after the scan.
varsMas == <<varsDecod, varsEstado, varsCuaderno, varsRepeticion, varsVideo,
             varsFinal>>

varsOtros == <<varsIdioma, varsUrls, varsEscaner, varsMas>>

vars == <<varsGen, varsInv, varsOtros>>

\* artefacto_tiene_idioma is not running.
DecodInactivo ==
    /\ raw_d = [clase |-> "None", v |-> 0]
    /\ tipo_d = [clase |-> "None", v |-> 0]
    /\ salida_d = [clase |-> "pendiente", v |-> 0]

EstadoInactivo ==
    /\ snapshot = [clase |-> "None", v |-> <<>>]
    /\ salida_e = [clase |-> "pendiente", v |-> <<>>]

CuadernoInactivo ==
    /\ pc_c = "inactivo"
    /\ notebook_id = ""
    /\ solicitados_c = {}
    /\ cuadernos = {}
    /\ local_existentes = [clase |-> "None", v |-> <<>>]
    /\ retorno_c = [clase |-> "pendiente", v |-> FALSE]

RepeticionInactiva ==
    /\ averiadas = {}
    /\ raw_servicio = [clase |-> "None", v |-> <<>>]
    /\ llamada = 1
    /\ primera = [existentes |-> <<>>, urls |-> {}]

VideoInactivo ==
    /\ pc_v = "inactivo"
    /\ url_v = "valida"
    /\ solicitados_v = {}
    /\ informe_flag = FALSE
    /\ origen_v = "ninguno"
    /\ fuente_v = "pendiente"
    /\ informe_v = "no"
    /\ retorno_v = [clase |-> "pendiente", v |-> FALSE]
    /\ metadatos_v = "pendiente"
    /\ contactos = {}

DosVideosInactivo ==
    /\ url_texto = [hostname |-> "", path |-> <<>>, v |-> Nada]
    /\ titulos_previos = <<>>
    /\ creados_antes = <<>>
    /\ ejecucion = 1

EquivalenciaInactiva ==
    /\ lista_q = <<>>
    /\ guion = [generar |-> <<>>, esperar |-> <<>>]
    /\ salida_q = [clase |-> "pendiente", main |-> <<>>, common |-> <<>>]

ListarInactivo ==
    /\ notebooks_l = <<>>
    /\ ordenar_por = "nombre"
    /\ descendente = FALSE
    /\ filtro_idioma = Nada
    /\ salida_l = [clase |-> "pendiente", v |-> <<>>, e |-> "none"]

FinalInactivo ==
    /\ DosVideosInactivo
    /\ EquivalenciaInactiva
    /\ ListarInactivo

MasInactivo ==
    /\ DecodInactivo
    /\ EstadoInactivo
    /\ CuadernoInactivo
    /\ RepeticionInactiva
    /\ VideoInactivo
    /\ FinalInactivo

IdiomaInactivo ==
    /\ artefacto = [id |-> 0, language |-> SinAtributo]
    /\ idioma_filtro = <<>>
    /\ coincide = "pendiente"

\* obtener_urls_artefactos is not running.
UrlsInactivo ==
    /\ artifacts_raw = [clase |-> "unbound", v |-> <<>>]
    /\ fase_u = "inactivo"
    /\ j = 0
    /\ urls = {}
    /\ error_u = "none"

\* verificar_artefactos_existentes is not running.
EscanerInactivo ==
    /\ idioma = <<>>
    /\ contenido = <<>>
    /\ fase = "inactivo"
    /\ k = 0
    /\ existentes = <<>>
    /\ fallo = "none"
    /\ consultas = <<>>

\* generar_artefactos of module m is not running.
GeneradorInactivo(m) ==
    /\ modulo = m
    /\ faltantes = <<>>
    /\ pc = "inactivo"
    /\ i = 0
    /\ exitosos = 0
    /\ cuotas_agotadas = {}
    /\ resultado = [clase |-> "unbound"]
    /\ estado = [t \in DOMAIN CONFIG_ARTEFACTOS(m) |-> "NotStarted"]
    /\ despachos = <<>>
    /\ retardos = 0
    /\ enVuelo = {}
    /\ excepcion = "none"
    /\ retorno = -1
    /\ invocacion = 1
    /\ previas = {}
    /\ idioma_g = Str_es
    /\ kwargs_enviados = <<>>

(***************************************************************************)
(* Helpers of the loop body.                                               *)
(***************************************************************************)

\* Variant of TipoActual: the list is re-sorted to canonical order first.
TipoCanonico ==
    ListaDelLlamador(modulo, { faltantes[n] : n \in DOMAIN faltantes })[i + 1]

\* Variant of TipoActual: the loop variable is never rebound.
TipoPrimero == faltantes[1]

\* tipo of the current iteration: for i, tipo in enumerate(faltantes).
TipoActual == faltantes[i + 1]

\* grupo_cuota = CUOTA_COMPARTIDA.get(tipo)
GrupoCuota(tipo) ==
    IF tipo \in DOMAIN CUOTA_COMPARTIDA THEN CUOTA_COMPARTIDA[tipo] ELSE None

\* Variant of DebeOmitir: the test "grupo_cuota and" is left out.
OmitirSiEstaAgotado(tipo, agotadas) == GrupoCuota(tipo) \in agotadas

\* if grupo_cuota and grupo_cuota in cuotas_agotadas: ... continue
DebeOmitir(tipo, agotadas) ==
    GrupoCuota(tipo) # None /\ GrupoCuota(tipo) \in agotadas

\* Variant of AplicaRetardo: the delay also precedes the first kind.
RetardoSiempre(n) == n >= 0

\* if i > 0: the inter-task delay
AplicaRetardo(n) == n > 0

\* Truth value of a response object (None and the empty dict are falsy).
Truthy(r) ==
    /\ r.clase # "None"
    /\ (r.clase = "dict" => ~r.vacio)

\* resultado and getattr(resultado, 'status', None) == 'failed'
EsFallo(r) == Truthy(r) /\ r.status = "failed"

\* Variant of LimiteAlcanzado: every failure is taken for a rate limit.
LimiteSiempre(r) == r.status = "failed"

\* hasattr(resultado, 'is_rate_limited') and resultado.is_rate_limited
LimiteAlcanzado(r) == r.is_rate_limited = "True"

\* Variant of RequiereEspera: the task is never waited for.
NuncaEspera(r) == Truthy(r) /\ r.task_id = "no-task"

\* resultado and getattr(resultado, 'task_id', None)
RequiereEspera(r) == Truthy(r) /\ r.task_id # ""

\* Variant of ExitoSincrono: any non-empty dict counts.
ExitoSiHayDict(r) == Truthy(r)

\* resultado and resultado.get('mind_map')
ExitoSincrono(r) == Truthy(r) /\ r.mind_map # ""

\* Variant of MarcarCuota: the exhaustion is not recorded.
MarcarNada(m, agotadas, grupo) == agotadas

\* Variant of MarcarCuota: the set is assigned, not added to.
MarcarSolo(m, agotadas, grupo) == {grupo}

\* The set of exhausted groups after a rate-limited failure of a kind of
\* group grupo.  common.py adds grupo_cuota whatever it is; main.py adds it
\* only when the kind has a group.
MarcarCuota(m, agotadas, grupo) ==
    IF m = "common"
    THEN agotadas \cup {grupo}
    ELSE IF grupo # None THEN agotadas \cup {grupo} ELSE agotadas

\* Variant of CuotasIniciales: the set outlives the invocation, as a
\* module-level set would.
CuotasHeredadas == cuotas_agotadas

\* cuotas_agotadas = set(): a new local set in every invocation.
CuotasIniciales == {}

\* Variant of Capturada: except RPCError only.
CapturadaSoloRPC(e) == e = "RPCError"

\* except Exception as e: catches every exception the client raises.
Capturada(e) == e \in Excepciones

\* Variant of ContarExito: the counter is left alone.
NoContar(n) == n

\* exitosos += 1
ContarExito(n) == n + 1

\* Variant of TrasRespuesta: the call is fired and not awaited.
SinAwait(pendientes, req) == pendientes

\* The requests still unanswered once the awaited request req has returned
\* or raised.
TrasRespuesta(pendientes, req) == pendientes \ {req}

\* Variant of Kwargs: every call carries the language.
KwargsConIdioma(m, tipo, idi) == {<<"language", idi>>}

\* kwargs of CONFIG_ARTEFACTOS[tipo], as the set of its items:
\* {'language': idioma} or {}.
Kwargs(m, tipo, idi) ==
    IF CONFIG_ARTEFACTOS(m)[tipo] THEN {<<"language", idi>>} ELSE {}

Generate(tipo) == [op |-> "generate", tipo |-> tipo]
WaitForCompletion(tipo) == [op |-> "wait_for_completion", tipo |-> tipo]

(***************************************************************************)
(* The invocation.                                                         *)
(***************************************************************************)

Init ==
    /\ MasInactivo
    /\ modulo \in Modulos
    /\ faltantes \in Entradas(modulo)
    /\ pc = "inicio"
    /\ i = 0
    /\ exitosos = 0
    /\ cuotas_agotadas = {}
    /\ resultado = SinResultado
    /\ estado = [t \in DOMAIN CONFIG_ARTEFACTOS(modulo) |-> "NotStarted"]
    /\ despachos = <<>>
    /\ retardos = 0
    /\ enVuelo = {}
    /\ excepcion = "none"
    /\ retorno = -1
    /\ invocacion = 1
    /\ previas = {}
    /\ idioma_g = Str_es
    /\ kwargs_enviados = <<>>
    /\ IdiomaInactivo
    /\ UrlsInactivo
    /\ EscanerInactivo

\* The same start, with a list of length at most MaxListaCorta.
InitCorta ==
    /\ MasInactivo
    /\ modulo \in Modulos
    /\ faltantes \in EntradasCortas(modulo)
    /\ pc = "inicio"
    /\ i = 0
    /\ exitosos = 0
    /\ cuotas_agotadas = {}
    /\ resultado = SinResultado
    /\ estado = [t \in DOMAIN CONFIG_ARTEFACTOS(modulo) |-> "NotStarted"]
    /\ despachos = <<>>
    /\ retardos = 0
    /\ enVuelo = {}
    /\ excepcion = "none"
    /\ retorno = -1
    /\ invocacion = 1
    /\ previas = {}
    /\ idioma_g = Str_es
    /\ kwargs_enviados = <<>>
    /\ IdiomaInactivo
    /\ UrlsInactivo
    /\ EscanerInactivo

\* if not faltantes: return 0
RetornarVacio ==
    /\ pc = "inicio"
    /\ faltantes = <<>>
    /\ pc' = "fin"
    /\ retorno' = 0
    /\ UNCHANGED <<idioma_g, kwargs_enviados>>
    /\ UNCHANGED <<modulo, faltantes, i, exitosos, cuotas_agotadas, resultado,
                   estado, despachos, retardos, enVuelo, excepcion>>
    /\ UNCHANGED <<varsInv, varsOtros>>

\* exitosos = 0; cuotas_agotadas = set(); enter the loop
Entrar ==
    /\ pc = "inicio"
    /\ faltantes # <<>>
    /\ pc' = "iter"
    /\ i' = 0
    /\ exitosos' = 0
    /\ cuotas_agotadas' = CuotasIniciales
    /\ UNCHANGED <<idioma_g, kwargs_enviados>>
    /\ UNCHANGED <<modulo, faltantes, resultado, estado, despachos, retardos,
                   enVuelo, excepcion, retorno>>
    /\ UNCHANGED <<varsInv, varsOtros>>

\* The kind's quota group is exhausted: skip it, no call, no delay.
Omitir ==
    /\ pc = "iter"
    /\ i < Len(faltantes)
    /\ DebeOmitir(TipoActual, cuotas_agotadas)
    /\ estado' = [estado EXCEPT ![TipoActual] = "Skipped"]
    /\ i' = i + 1
    /\ resultado' = SinResultado
    /\ excepcion' = "none"
    /\ UNCHANGED <<idioma_g, kwargs_enviados>>
    /\ UNCHANGED <<modulo, faltantes, pc, exitosos, cuotas_agotadas,
                   despachos, retardos, enVuelo, retorno>>
    /\ UNCHANGED <<varsInv, varsOtros>>

\* The inter-task delay: asyncio.sleep(retardo_entre_tareas) in main.py, the
\* loop of asyncio.sleep(0.1) in common.py.
Retardo ==
    /\ pc = "iter"
    /\ i < Len(faltantes)
    /\ ~DebeOmitir(TipoActual, cuotas_agotadas)
    /\ AplicaRetardo(i)
    /\ pc' = "retardo"
    /\ retardos' = retardos + 1
    /\ resultado' = SinResultado
    /\ excepcion' = "none"
    /\ UNCHANGED <<idioma_g, kwargs_enviados>>
    /\ UNCHANGED <<modulo, faltantes, i, exitosos, cuotas_agotadas, estado,
                   despachos, enVuelo, retorno>>
    /\ UNCHANGED <<varsInv, varsOtros>>

\* await generar_func(notebook_id, **kwargs): the call is issued.
Despachar ==
    /\ \/ pc = "retardo"
       \/ /\ pc = "iter"
          /\ i < Len(faltantes)
          /\ ~DebeOmitir(TipoActual, cuotas_agotadas)
          /\ ~AplicaRetardo(i)
    /\ pc' = "generar"
    /\ despachos' = Append(despachos, TipoActual)
    /\ kwargs_enviados' = Append(kwargs_enviados, Kwargs(modulo, TipoActual, idioma_g))
    /\ estado' = [estado EXCEPT ![TipoActual] = "Dispatched"]
    /\ enVuelo' = enVuelo \cup {Generate(TipoActual)}
    /\ resultado' = SinResultado
    /\ excepcion' = "none"
    /\ UNCHANGED <<modulo, idioma_g, faltantes, i, exitosos, cuotas_agotadas, retardos,
                   retorno>>
    /\ UNCHANGED <<varsInv, varsOtros>>

\* A synchronous kind (mind_map) answers: success is decided by the content.
RespuestaSincrona ==
    /\ pc = "generar"
    /\ TipoActual \in ARTEFACTOS_SINCRONOS(modulo)
    /\ \E r \in RespuestasSincronas :
        /\ resultado' = r
        /\ IF ExitoSincrono(r)
           THEN /\ exitosos' = ContarExito(exitosos)
                /\ estado' = [estado EXCEPT ![TipoActual] = "Succeeded"]
           ELSE /\ exitosos' = exitosos
                /\ estado' = [estado EXCEPT ![TipoActual] = "Rejected"]
    /\ enVuelo' = TrasRespuesta(enVuelo, Generate(TipoActual))
    /\ i' = i + 1
    /\ pc' = "iter"
    /\ UNCHANGED <<idioma_g, kwargs_enviados>>
    /\ UNCHANGED <<modulo, faltantes, cuotas_agotadas, despachos, retardos,
                   excepcion, retorno>>
    /\ UNCHANGED <<varsInv, varsOtros>>

\* An asynchronous kind answers status == 'failed'.
RespuestaFallida ==
    /\ pc = "generar"
    /\ TipoActual \notin ARTEFACTOS_SINCRONOS(modulo)
    /\ \E r \in RespuestasAsincronas :
        /\ EsFallo(r)
        /\ resultado' = r
        /\ IF LimiteAlcanzado(r)
           THEN /\ cuotas_agotadas' =
                      MarcarCuota(modulo, cuotas_agotadas, GrupoCuota(TipoActual))
                /\ estado' = [estado EXCEPT ![TipoActual] = "QuotaExhausted"]
           ELSE /\ cuotas_agotadas' = cuotas_agotadas
                /\ estado' = [estado EXCEPT ![TipoActual] = "Rejected"]
    /\ enVuelo' = TrasRespuesta(enVuelo, Generate(TipoActual))
    /\ i' = i + 1
    /\ pc' = "iter"
    /\ UNCHANGED <<idioma_g, kwargs_enviados>>
    /\ UNCHANGED <<modulo, faltantes, exitosos, despachos, retardos,
                   excepcion, retorno>>
    /\ UNCHANGED <<varsInv, varsOtros>>

\* An asynchronous kind answers with a task id: wait_for_completion is called.
RespuestaConTarea ==
    /\ pc = "generar"
    /\ TipoActual \notin ARTEFACTOS_SINCRONOS(modulo)
    /\ \E r \in RespuestasAsincronas :
        /\ ~EsFallo(r)
        /\ RequiereEspera(r)
        /\ resultado' = r
    /\ enVuelo' = TrasRespuesta(enVuelo, Generate(TipoActual))
                     \cup {WaitForCompletion(TipoActual)}
    /\ pc' = "esperando"
    /\ UNCHANGED <<idioma_g, kwargs_enviados>>
    /\ UNCHANGED <<modulo, faltantes, i, exitosos, cuotas_agotadas, estado,
                   despachos, retardos, excepcion, retorno>>
    /\ UNCHANGED <<varsInv, varsOtros>>

\* An asynchronous kind answers None, or a status that is not 'failed' and
\* has no task id: reported as completed.
RespuestaSinTarea ==
    /\ pc = "generar"
    /\ TipoActual \notin ARTEFACTOS_SINCRONOS(modulo)
    /\ \E r \in RespuestasAsincronas :
        /\ ~EsFallo(r)
        /\ ~RequiereEspera(r)
        /\ resultado' = r
    /\ exitosos' = ContarExito(exitosos)
    /\ estado' = [estado EXCEPT ![TipoActual] = "Succeeded"]
    /\ enVuelo' = TrasRespuesta(enVuelo, Generate(TipoActual))
    /\ i' = i + 1
    /\ pc' = "iter"
    /\ UNCHANGED <<idioma_g, kwargs_enviados>>
    /\ UNCHANGED <<modulo, faltantes, cuotas_agotadas, despachos, retardos,
                   excepcion, retorno>>
    /\ UNCHANGED <<varsInv, varsOtros>>

\* wait_for_completion returns.
EsperaCompleta ==
    /\ pc = "esperando"
    /\ exitosos' = ContarExito(exitosos)
    /\ estado' = [estado EXCEPT ![TipoActual] = "Succeeded"]
    /\ enVuelo' = TrasRespuesta(enVuelo, WaitForCompletion(TipoActual))
    /\ i' = i + 1
    /\ pc' = "iter"
    /\ UNCHANGED <<idioma_g, kwargs_enviados>>
    /\ UNCHANGED <<modulo, faltantes, cuotas_agotadas, resultado, despachos,
                   retardos, excepcion, retorno>>
    /\ UNCHANGED <<varsInv, varsOtros>>

\* The generation call or wait_for_completion raises.
Excepcion ==
    /\ pc \in {"generar", "esperando"}
    /\ \E e \in Excepciones :
        /\ excepcion' = e
        /\ IF Capturada(e)
           THEN /\ estado' = [estado EXCEPT ![TipoActual] = "Error"]
                /\ i' = i + 1
                /\ pc' = "iter"
           ELSE /\ pc' = "propagada"
                /\ UNCHANGED <<estado, i>>
    /\ enVuelo' = IF pc = "generar"
                  THEN TrasRespuesta(enVuelo, Generate(TipoActual))
                  ELSE TrasRespuesta(enVuelo, WaitForCompletion(TipoActual))
    /\ UNCHANGED <<idioma_g, kwargs_enviados>>
    /\ UNCHANGED <<modulo, faltantes, exitosos, cuotas_agotadas, resultado,
                   despachos, retardos, retorno>>
    /\ UNCHANGED <<varsInv, varsOtros>>

\* return exitosos
Retornar ==
    /\ pc = "iter"
    /\ i = Len(faltantes)
    /\ pc' = "fin"
    /\ retorno' = exitosos
    /\ resultado' = SinResultado
    /\ excepcion' = "none"
    /\ UNCHANGED <<idioma_g, kwargs_enviados>>
    /\ UNCHANGED <<modulo, faltantes, i, exitosos, cuotas_agotadas, estado,
                   despachos, retardos, enVuelo>>
    /\ UNCHANGED <<varsInv, varsOtros>>

Next ==
    \/ RetornarVacio
    \/ Entrar
    \/ Omitir
    \/ Retardo
    \/ Despachar
    \/ RespuestaSincrona
    \/ RespuestaFallida
    \/ RespuestaConTarea
    \/ RespuestaSinTarea
    \/ EsperaCompleta
    \/ Excepcion
    \/ Retornar

Spec == Init /\ [][Next]_vars

\* The call has returned and its frame is discarded: what the model recorded
\* about it is forgotten.  The locals of a later call are unbound until its
\* own assignments, so the model leaves the old values of exitosos and
\* cuotas_agotadas in place for Entrar to overwrite.
Descartar ==
    /\ pc = "fin"
    /\ invocacion < MaxInvocaciones
    /\ pc' = "retornada"
    /\ previas' = previas \cup (IF faltantes = <<>> THEN {} ELSE cuotas_agotadas)
    /\ faltantes' = <<>>
    /\ i' = 0
    /\ resultado' = SinResultado
    /\ estado' = [t \in DOMAIN CONFIG_ARTEFACTOS(modulo) |-> "NotStarted"]
    /\ despachos' = <<>>
    /\ kwargs_enviados' = <<>>
    /\ retardos' = 0
    /\ excepcion' = "none"
    /\ retorno' = -1
    /\ UNCHANGED <<modulo, idioma_g, exitosos, cuotas_agotadas, enVuelo, invocacion>>
    /\ UNCHANGED varsOtros

\* The caller calls generar_artefactos again, with a list of its choice.
Reinvocar ==
    /\ pc = "retornada"
    /\ invocacion' = invocacion + 1
    /\ faltantes' \in EntradasCortas(modulo)
    /\ pc' = "inicio"
    /\ UNCHANGED <<idioma_g, kwargs_enviados>>
    /\ UNCHANGED <<modulo, i, exitosos, cuotas_agotadas, resultado, estado,
                   despachos, retardos, enVuelo, excepcion, retorno, previas>>
    /\ UNCHANGED varsOtros

NextDos ==
    \/ Next
    \/ Descartar
    \/ Reinvocar

\* Several invocations in a row.
SpecDos == InitCorta /\ [][NextDos]_vars

\* One invocation where the event loop keeps running the coroutine and the
\* external service answers every call, with a value or an exception.
SpecJusta == InitCorta /\ [][Next]_vars /\ WF_vars(Next)

\* Values of the parameter idioma of generar_artefactos: its default and
\* another code.
IdiomasDeGeneracion == {Str_es, Str_EN}

\* One invocation with a short list, in any of the languages.
InitKwargs ==
    /\ MasInactivo
    /\ modulo \in Modulos
    /\ faltantes \in EntradasCortas(modulo)
    /\ pc = "inicio"
    /\ i = 0
    /\ exitosos = 0
    /\ cuotas_agotadas = {}
    /\ resultado = SinResultado
    /\ estado = [t \in DOMAIN CONFIG_ARTEFACTOS(modulo) |-> "NotStarted"]
    /\ despachos = <<>>
    /\ retardos = 0
    /\ enVuelo = {}
    /\ excepcion = "none"
    /\ retorno = -1
    /\ invocacion = 1
    /\ previas = {}
    /\ idioma_g \in IdiomasDeGeneracion
    /\ kwargs_enviados = <<>>
    /\ IdiomaInactivo
    /\ UrlsInactivo
    /\ EscanerInactivo

SpecKwargs == InitKwargs /\ [][Next]_vars

(***************************************************************************)
(* artefacto_tiene_idioma (the same function in common.py and main.py).    *)
(***************************************************************************)

\* Longest str tried as a language tag or as a requested language.
MaxIdioma == 2

\* Characters the tags are made of.
Alfabeto == {"e", "s", "E", "S", "n", "-"}

\* The strings over Alfabeto of length at most n.
Cadenas(n) == UNION { [1..c -> Alfabeto] : c \in 0..n }

\* Values of the language attribute: missing, None, short strings (the
\* empty one among them) and two full tags.
LanguagesDeRegistro ==
    {SinAtributo, LanguageNone}
    \cup { Language(s) : s \in Cadenas(MaxIdioma) \cup {Str_esES, Str_enUS} }

\* Values of the parameter idioma.
IdiomasPedidos == Cadenas(MaxIdioma) \cup {Str_esES}

\* lang = getattr(artefacto, 'language', None)
getattr_language(a) ==
    IF a.language.clase = "absent" THEN LanguageNone ELSE a.language

\* if lang: return lang.lower().startswith(idioma.lower()); return True
artefacto_tiene_idioma(a, idi) ==
    LET lang == getattr_language(a)
    IN  IF lang.clase = "str" /\ lang.v # <<>>
        THEN startswith(lower(lang.v), lower(idi))
        ELSE TRUE

InitIdioma ==
    /\ MasInactivo
    /\ \E m \in Modulos : GeneradorInactivo(m)
    /\ UrlsInactivo
    /\ EscanerInactivo
    /\ artefacto \in [id : {1}, language : LanguagesDeRegistro]
    /\ idioma_filtro \in IdiomasPedidos
    /\ coincide = "pendiente"

\* The call returns.
Evaluar ==
    /\ coincide = "pendiente"
    /\ coincide' = IF artefacto_tiene_idioma(artefacto, idioma_filtro)
                   THEN "True" ELSE "False"
    /\ UNCHANGED <<artefacto, idioma_filtro>>
    /\ UNCHANGED <<varsGen, varsInv, varsUrls, varsEscaner, varsMas>>

NextIdioma == Evaluar

\* One call of artefacto_tiene_idioma.
SpecIdioma == InitIdioma /\ [][NextIdioma]_vars

(***************************************************************************)
(* extraer_url_de_artefacto_raw: the decoder of raw artifacts.             *)
(***************************************************************************)

STUDIO_AUDIO == 1
STUDIO_REPORT == 2
STUDIO_VIDEO == 3
STUDIO_INFOGRAPHIC == 7
STUDIO_SLIDE_DECK == 8
ARTIFACT_STATUS_COMPLETED == 3

\* isinstance(x, list)
EsLista(x) == x.clase = "list"

\* len(x) of a list x
len(x) == Len(x.v)

\* x[n] of a list or str x, n counted from 0; a str yields its character
at(x, n) == IF x.clase = "str" THEN Cad(<<x.v[n + 1]>>) ELSE x.v[n + 1]

\* An exception leaving an expression.
Lanza(e) == [clase |-> "raise", v |-> e]

\* len(x) and reversed(x) raise TypeError unless x is a list or a str
TieneLen(x) == x.clase \in {"list", "str"}

\* isinstance(x, str) and x.startswith("http")
EsHttp(x) == x.clase = "str" /\ startswith(x.v, Str_http)

\* x == n for an int constant n
EsEntero(x, n) == x.clase = "int" /\ x.v = n

\* x == mime for a str constant mime
EsMime(x, mime) == x.clase = "str" /\ x.v = mime

\* bool(x)
Verdadero(x) ==
    CASE x.clase = "None" -> FALSE
      [] x.clase = "int" -> x.v # 0
      [] OTHER -> x.v # <<>>

Menor(S) == CHOOSE n \in S : \A m \in S : n <= m
Mayor(S) == CHOOSE n \in S : \A m \in S : n >= m

\* Variant of ElegirMedio: the first entry is taken, whatever its MIME type.
PrimerMedio(media_list, mime) ==
    IF EsLista(at(media_list, 0)) /\ len(at(media_list, 0)) > 0
    THEN at(at(media_list, 0), 0)
    ELSE Nada

\* The two loops over media_list: the first item whose item[2] is the MIME
\* type gives item[0]; otherwise media_list[0][0].
ElegirMedio(media_list, mime) ==
    LET con_mime == { n \in 1..len(media_list) :
                        /\ EsLista(media_list.v[n])
                        /\ len(media_list.v[n]) > 2
                        /\ EsMime(at(media_list.v[n], 2), mime) }
    IN  IF con_mime # {}
        THEN at(media_list.v[Menor(con_mime)], 0)
        ELSE IF EsLista(at(media_list, 0)) /\ len(at(media_list, 0)) > 0
             THEN at(at(media_list, 0), 0)
             ELSE Nada

\* if artifact_type == STUDIO_AUDIO: artifact[6][5] is the media list
UrlAudio(art) ==
    IF len(art) <= 6 THEN Nada
    ELSE IF ~EsLista(at(art, 6)) \/ len(at(art, 6)) <= 5 THEN Nada
    ELSE IF ~EsLista(at(at(art, 6), 5)) \/ len(at(at(art, 6), 5)) = 0 THEN Nada
    ELSE ElegirMedio(at(at(art, 6), 5), Str_audio_mp4)

\* Variant of UrlVideo: the first non-empty list of artifact[8] is the media
\* list, whatever it begins with.
UrlVideoPrimeraLista(art) ==
    IF len(art) <= 8 THEN Nada
    ELSE IF ~EsLista(at(art, 8)) THEN Nada
    ELSE LET metadata == at(art, 8)
             listas == { n \in 1..len(metadata) :
                           /\ EsLista(metadata.v[n])
                           /\ len(metadata.v[n]) > 0 }
         IN  IF listas = {} THEN Nada
             ELSE ElegirMedio(metadata.v[Menor(listas)], Str_video_mp4)

\* elif artifact_type == STUDIO_VIDEO: the first item of artifact[8] that
\* holds an http URL at item[0][0] is the media list
UrlVideo(art) ==
    IF len(art) <= 8 THEN Nada
    ELSE IF ~EsLista(at(art, 8)) THEN Nada
    ELSE LET metadata == at(art, 8)
             con_url == { n \in 1..len(metadata) :
                            /\ EsLista(metadata.v[n])
                            /\ len(metadata.v[n]) > 0
                            /\ EsLista(at(metadata.v[n], 0))
                            /\ len(at(metadata.v[n], 0)) > 0
                            /\ EsHttp(at(at(metadata.v[n], 0), 0)) }
         IN  IF con_url = {} THEN Nada
             ELSE ElegirMedio(metadata.v[Menor(con_url)], Str_video_mp4)

\* Variant of UrlInfografia: the artifact is scanned from its start.
UrlInfografiaDesdeElInicio(art) ==
    LET con_url == { n \in 1..len(art) :
                       LET item == at(art, n - 1)
                       IN  /\ EsLista(item)
                           /\ len(item) > 0
                           /\ EsLista(at(item, 0))
                           /\ len(item) > 2
                           /\ EsLista(at(item, 2))
                           /\ len(at(item, 2)) > 0
                           /\ EsLista(at(at(item, 2), 0))
                           /\ len(at(at(item, 2), 0)) > 1
                           /\ EsLista(at(at(at(item, 2), 0), 1))
                           /\ len(at(at(at(item, 2), 0), 1)) > 0
                           /\ EsHttp(at(at(at(at(item, 2), 0), 1), 0)) }
    IN  IF con_url = {} THEN Nada
        ELSE at(at(at(at(at(art, Menor(con_url) - 1), 2), 0), 1), 0)

\* elif artifact_type == STUDIO_INFOGRAPHIC: scanning the artifact from its
\* end, the first item with an http URL at item[2][0][1][0]
UrlInfografia(art) ==
    LET con_url == { n \in 1..len(art) :
                       LET item == at(art, n - 1)
                       IN  /\ EsLista(item)
                           /\ len(item) > 0
                           /\ EsLista(at(item, 0))
                           /\ len(item) > 2
                           /\ EsLista(at(item, 2))
                           /\ len(at(item, 2)) > 0
                           /\ EsLista(at(at(item, 2), 0))
                           /\ len(at(at(item, 2), 0)) > 1
                           /\ EsLista(at(at(at(item, 2), 0), 1))
                           /\ len(at(at(at(item, 2), 0), 1)) > 0
                           /\ EsHttp(at(at(at(at(item, 2), 0), 1), 0)) }
    IN  IF con_url = {} THEN Nada
        ELSE at(at(at(at(at(art, Mayor(con_url) - 1), 2), 0), 1), 0)

\* Variant of UrlSlides: artifact[16][3] is returned whatever it is.
UrlSlidesSinPrueba(art) ==
    IF len(art) <= 16 THEN Nada
    ELSE IF ~EsLista(at(art, 16)) \/ len(at(art, 16)) <= 3 THEN Nada
    ELSE at(at(art, 16), 3)

\* elif artifact_type == STUDIO_SLIDE_DECK: artifact[16][3] is the PDF URL
UrlSlides(art) ==
    IF len(art) <= 16 THEN Nada
    ELSE IF ~EsLista(at(art, 16)) \/ len(at(art, 16)) <= 3 THEN Nada
    ELSE IF EsHttp(at(at(art, 16), 3)) THEN at(at(art, 16), 3)
    ELSE Nada

\* The body of the try: the value of the return statement reached, None
\* when the body falls through, or the exception that leaves it.  Every
\* branch starts with len() or reversed() of the payload.
CuerpoDelTry(artifact_raw, artifact_type) ==
    IF EsEntero(artifact_type, STUDIO_AUDIO)
    THEN IF TieneLen(artifact_raw) THEN UrlAudio(artifact_raw)
         ELSE Lanza("TypeError")
    ELSE IF EsEntero(artifact_type, STUDIO_VIDEO)
    THEN IF TieneLen(artifact_raw) THEN UrlVideo(artifact_raw)
         ELSE Lanza("TypeError")
    ELSE IF EsEntero(artifact_type, STUDIO_INFOGRAPHIC)
    THEN IF TieneLen(artifact_raw) THEN UrlInfografia(artifact_raw)
         ELSE Lanza("TypeError")
    ELSE IF EsEntero(artifact_type, STUDIO_SLIDE_DECK)
    THEN IF TieneLen(artifact_raw) THEN UrlSlides(artifact_raw)
         ELSE Lanza("TypeError")
    ELSE Nada

\* Variant of Atrapada: the handler names IndexError alone.
AtrapadaSoloIndexError(e) == e = "IndexError"

\* except (IndexError, TypeError)
Atrapada(e) == e \in {"IndexError", "TypeError"}

\* The URL (or whatever value sits in its place) of a raw artifact, None
\* when the shape does not match or the type has no download; an exception
\* the handler does not name leaves the function.
extraer_url_de_artefacto_raw(artifact_raw, artifact_type) ==
    LET r == CuerpoDelTry(artifact_raw, artifact_type)
    IN  IF r.clase = "raise" /\ Atrapada(r.v) THEN Nada ELSE r

\* Longest media list, metadata list and infographic payload tried.
MaxMedios == 2

\* The sequences over S of length lo..hi.
Secuencias(S, lo, hi) == UNION { [1..c -> S] : c \in lo..hi }

\* Values of the wrong type for any position.
Atomos == {Nada, Ent(5), Cad(Str_url_u), Lis(<<>>)}

\* What may sit where a URL is expected.
UrlsPosibles ==
    {Cad(Str_url_u), Cad(Str_url_w), Cad(Str_ftp), Ent(5), Nada,
     Lis(<<Cad(Str_url_u)>>)}

\* Slide-deck payloads: the metadata list at index 16 with any value at its
\* index 3, a metadata list of length 3 or 5, no list at index 16, and
\* payloads of top-level length 16 and 18.
MetasSlides ==
    { Lis(Relleno(3) \o <<u>>) : u \in UrlsPosibles }
    \cup { Lis(Relleno(3)), Lis(Relleno(3) \o <<Cad(Str_url_u), Nada>>) }
    \cup Atomos

CargasSlides ==
    { Lis(Relleno(16) \o <<m>>) : m \in MetasSlides }
    \cup { Lis(Relleno(16)),
           Lis(Relleno(16) \o <<Lis(Relleno(3) \o <<Cad(Str_url_w)>>), Nada>>) }

\* Media entries of an audio payload: [url, _, mime] with or without the
\* MIME type, an entry of one field, and a value that is no list.
MediosAudio ==
    { Lis(<<u, Nada, m>>) : u \in {Cad(Str_url_u), Cad(Str_url_w), Ent(5),
                                  Cad(Str_ftp)},
                            m \in {Cad(Str_audio_mp4), Nada} }
    \cup { Lis(<<Cad(Str_url_u)>>), Nada }

\* Audio payloads: the media list at [6][5], shorter metadata, wrong types.
MetasAudio ==
    { Lis(Relleno(5) \o <<Lis(ml)>>) :
        ml \in Secuencias(MediosAudio, 0, MaxMedios) }
    \cup { Lis(Relleno(5) \o <<a>>) : a \in Atomos }
    \cup { Lis(Relleno(5)) }
    \cup Atomos

CargasAudio ==
    { Lis(Relleno(6) \o <<m>>) : m \in MetasAudio } \cup { Lis(Relleno(6)) }

\* Media entries of a video payload, and the items of its metadata list:
\* lists of entries, and values that are no list of entries.
MediosVideo ==
    { Lis(<<Cad(Str_url_u), Nada, Cad(Str_video_mp4)>>),
      Lis(<<Cad(Str_url_w), Nada, Nada>>),
      Lis(<<Ent(5), Nada, Cad(Str_video_mp4)>>) }

ItemsVideo ==
    { Lis(ml) : ml \in Secuencias(MediosVideo, 1, MaxMedios) }
    \cup { Nada, Cad(Str_url_u) }

\* Video payloads: the metadata list at index 8, or something else there.
CargasVideo ==
    { Lis(Relleno(8) \o <<Lis(md)>>) :
        md \in Secuencias(ItemsVideo, 0, MaxMedios) }
    \cup { Lis(Relleno(8) \o <<a>>) : a \in Atomos }
    \cup { Lis(Relleno(8)) }

\* An element of an infographic payload with primero at [0] and dato at
\* [2][0][1].
ItemInfografia(primero, dato) ==
    Lis(<<primero, Nada, Lis(<<Lis(<<Nada, dato>>)>>)>>)

\* Top-level elements of an infographic payload: two that hold a URL, one
\* whose [0] is no list, one whose [2] is empty, one whose [2][0] has one
\* field, one whose [2][0][1] holds no http string, and two that are no
\* such element at all.
ItemsInfografia ==
    { ItemInfografia(Lis(<<>>), Lis(<<Cad(Str_url_u)>>)),
      ItemInfografia(Lis(<<>>), Lis(<<Cad(Str_url_w)>>)),
      ItemInfografia(Nada, Lis(<<Cad(Str_url_u)>>)),
      Lis(<<Lis(<<>>), Nada, Lis(<<>>)>>),
      Lis(<<Lis(<<>>), Nada, Lis(<<Lis(<<Nada>>)>>)>>),
      ItemInfografia(Lis(<<>>), Lis(<<Cad(Str_ftp)>>)),
      Nada, Cad(Str_url_u) }

CargasInfografia ==
    { Lis(e) : e \in Secuencias(ItemsInfografia, 0, MaxMedios) }

\* Payloads handed to the decoder, a str and values without len() included.
Cargas ==
    CargasSlides \cup CargasAudio \cup CargasVideo \cup CargasInfografia
    \cup { Nada, Ent(5), Cad(Str_url_u),
           Cad(Str_url_u \o Str_url_w \o Str_url_u \o Str_url_w) }

\* Values of artifact_type: the four types with a download, one without,
\* and a value that is no type.
TiposDecod ==
    { Ent(STUDIO_AUDIO), Ent(STUDIO_VIDEO), Ent(STUDIO_INFOGRAPHIC),
      Ent(STUDIO_SLIDE_DECK), Ent(STUDIO_REPORT), Nada }

InitDecod ==
    /\ EstadoInactivo
    /\ CuadernoInactivo
    /\ RepeticionInactiva
    /\ VideoInactivo
    /\ FinalInactivo
    /\ \E m \in Modulos : GeneradorInactivo(m)
    /\ IdiomaInactivo
    /\ UrlsInactivo
    /\ EscanerInactivo
    /\ raw_d \in Cargas
    /\ tipo_d \in TiposDecod
    /\ salida_d = [clase |-> "pendiente", v |-> 0]

\* The call ends: with the value returned, or with the exception that
\* leaves the function.
Decodificar ==
    /\ salida_d.clase = "pendiente"
    /\ salida_d' = [clase |-> "fin",
                    v |-> extraer_url_de_artefacto_raw(raw_d, tipo_d)]
    /\ UNCHANGED <<raw_d, tipo_d>>
    /\ UNCHANGED <<varsGen, varsInv, varsIdioma, varsUrls, varsEscaner>>
    /\ UNCHANGED <<varsEstado, varsCuaderno, varsRepeticion, varsVideo,
                   varsFinal>>

NextDecod == Decodificar

\* One call of extraer_url_de_artefacto_raw.
SpecDecod == InitDecod /\ [][NextDecod]_vars

(***************************************************************************)
(* obtener_urls_artefactos: the id -> (url, type) mapping.                 *)
(***************************************************************************)

\* Longest raw listing.
MaxRaw == 2

\* Artifact ids: two strings, and a list, which a dict cannot take as key.
IdA == Cad(<<"a">>)
IdB == Cad(<<"b">>)
IdLista == Lis(<<Cad(<<"x">>)>>)

\* Raw artifacts of each type, with the payload where the decoder looks.
RawSlides(id, st) ==
    Lis(<<id, Cad(Str_titulo), Ent(STUDIO_SLIDE_DECK), Nada, st>>
        \o Relleno(11) \o <<Lis(Relleno(3) \o <<Cad(Str_url_u)>>)>>)

RawSlidesSinUrl(id, st) ==
    Lis(<<id, Cad(Str_titulo), Ent(STUDIO_SLIDE_DECK), Nada, st>>
        \o Relleno(11) \o <<Lis(Relleno(3) \o <<Cad(Str_ftp)>>)>>)

RawAudio(id, st) ==
    Lis(<<id, Cad(Str_titulo), Ent(STUDIO_AUDIO), Nada, st, Nada,
          Lis(Relleno(5)
              \o <<Lis(<<Lis(<<Cad(Str_url_w), Nada, Cad(Str_audio_mp4)>>)>>)>>)>>)

RawVideo(id, st) ==
    Lis(<<id, Cad(Str_titulo), Ent(STUDIO_VIDEO), Nada, st, Nada, Nada, Nada,
          Lis(<<Nada,
                Lis(<<Lis(<<Cad(Str_url_w), Nada, Cad(Str_video_mp4)>>)>>)>>)>>)

RawInfografia(id, st) ==
    Lis(<<id, Cad(Str_titulo), Ent(STUDIO_INFOGRAPHIC), Nada, st,
          Lis(<<Lis(<<>>), Nada,
                Lis(<<Lis(<<Nada, Lis(<<Cad(Str_url_u)>>)>>)>>)>>)>>)

RawReport(id, st) ==
    Lis(<<id, Cad(Str_titulo), Ent(STUDIO_REPORT), Nada, st>>)

\* The elements a raw listing is made of: artifacts of every shape, id and
\* status, an element that is no list, and a list shorter than 5.
ArtefactosRaw ==
    UNION { { RawSlides(id, st), RawSlidesSinUrl(id, st), RawAudio(id, st),
              RawVideo(id, st), RawInfografia(id, st), RawReport(id, st) } :
            id \in {IdA, IdB, IdLista},
            st \in {Ent(ARTIFACT_STATUS_COMPLETED), Ent(1)} }
    \cup { Nada, Lis(<<IdA, Cad(Str_titulo), Ent(STUDIO_SLIDE_DECK)>>) }

\* What _list_raw returns.
ListadosRaw == UNION { [1..c -> ArtefactosRaw] : c \in 0..MaxRaw }

\* hash(x) succeeds: a list cannot be a dict key.
Hashable(x) == x.clase # "list"

\* Variant of EstaCompletado: the status is not looked at.
CualquierEstado(st) == TRUE

\* not (artifact_status != ARTIFACT_STATUS_COMPLETED)
EstaCompletado(st) == EsEntero(st, ARTIFACT_STATUS_COMPLETED)

\* urls[artifact_id] = (url, artifact_type)
Guardar(u, artifact_id, url, artifact_type) ==
    { e \in u : ~(e.id.clase = artifact_id.clase /\ e.id.v = artifact_id.v) }
    \cup { [id |-> artifact_id, url |-> url, tipo |-> artifact_type] }

\* One iteration of "for art in artifacts_raw": the mapping after it, and
\* the exception it raised, if any.
Iteracion(u, art) ==
    IF ~EsLista(art) \/ len(art) < 5
    THEN [urls |-> u, error |-> "none"]
    ELSE IF ~EstaCompletado(at(art, 4))
    THEN [urls |-> u, error |-> "none"]
    ELSE IF ~Verdadero(extraer_url_de_artefacto_raw(art, at(art, 2)))
    THEN [urls |-> u, error |-> "none"]
    ELSE IF ~Hashable(at(art, 0))
    THEN [urls |-> u, error |-> "TypeError"]
    ELSE [urls |-> Guardar(u, at(art, 0),
                           extraer_url_de_artefacto_raw(art, at(art, 2)),
                           at(art, 2)),
          error |-> "none"]

\* The loop from its n-th item on: it stops at the first exception, which
\* the except clause around the loop catches.
RECURSIVE Recorrer(_, _, _)
Recorrer(lista, n, u) ==
    IF n > Len(lista) THEN u
    ELSE IF Iteracion(u, lista[n]).error # "none" THEN u
    ELSE Recorrer(lista, n + 1, Iteracion(u, lista[n]).urls)

\* The mapping obtener_urls_artefactos returns for an answer of _list_raw.
obtener_urls_artefactos(respuesta) ==
    IF respuesta.clase = "raise" THEN {}
    ELSE Recorrer(respuesta.v, 1, {})

InitUrls ==
    /\ MasInactivo
    /\ GeneradorInactivo("common")
    /\ IdiomaInactivo
    /\ EscanerInactivo
    /\ artifacts_raw = [clase |-> "unbound", v |-> <<>>]
    /\ fase_u = "inicio"
    /\ j = 0
    /\ urls = {}
    /\ error_u = "none"

\* artifacts_raw = await client.artifacts._list_raw(notebook_id)
ListRawRetorna ==
    /\ fase_u = "inicio"
    /\ \E lista \in ListadosRaw : artifacts_raw' = Lis(lista)
    /\ fase_u' = "bucle"
    /\ j' = 1
    /\ UNCHANGED <<urls, error_u>>
    /\ UNCHANGED <<varsGen, varsInv, varsIdioma, varsEscaner, varsMas>>

\* _list_raw raises: except Exception, and the empty mapping is returned.
ListRawFalla ==
    /\ fase_u = "inicio"
    /\ \E e \in Excepciones :
         /\ artifacts_raw' = [clase |-> "raise", v |-> <<>>]
         /\ error_u' = e
    /\ fase_u' = "fin"
    /\ UNCHANGED <<j, urls>>
    /\ UNCHANGED <<varsGen, varsInv, varsIdioma, varsEscaner, varsMas>>

\* One iteration of the loop that raises nothing.
Iterar ==
    /\ fase_u = "bucle"
    /\ j <= len(artifacts_raw)
    /\ Iteracion(urls, artifacts_raw.v[j]).error = "none"
    /\ urls' = Iteracion(urls, artifacts_raw.v[j]).urls
    /\ j' = j + 1
    /\ UNCHANGED <<artifacts_raw, fase_u, error_u>>
    /\ UNCHANGED <<varsGen, varsInv, varsIdioma, varsEscaner, varsMas>>

\* An iteration raises: the except clause is outside the loop, so the loop
\* is left and the mapping built so far is returned.
FalloEnBucle ==
    /\ fase_u = "bucle"
    /\ j <= len(artifacts_raw)
    /\ Iteracion(urls, artifacts_raw.v[j]).error # "none"
    /\ error_u' = Iteracion(urls, artifacts_raw.v[j]).error
    /\ fase_u' = "fin"
    /\ UNCHANGED <<artifacts_raw, j, urls>>
    /\ UNCHANGED <<varsGen, varsInv, varsIdioma, varsEscaner, varsMas>>

\* The loop is over: return urls
RetornarUrls ==
    /\ fase_u = "bucle"
    /\ j > len(artifacts_raw)
    /\ fase_u' = "fin"
    /\ UNCHANGED <<artifacts_raw, j, urls, error_u>>
    /\ UNCHANGED <<varsGen, varsInv, varsIdioma, varsEscaner, varsMas>>

NextUrls ==
    \/ ListRawRetorna
    \/ ListRawFalla
    \/ Iterar
    \/ FalloEnBucle
    \/ RetornarUrls

\* One call of obtener_urls_artefactos.
SpecUrls == InitUrls /\ [][NextUrls]_vars

(***************************************************************************)
(* verificar_artefactos_existentes of common.py and of main.py: the scan   *)
(* of the artifacts a notebook already holds.  Every listing query is an   *)
(* await and a step; the notebook's content does not change during a scan. *)
(* main.py keeps one record or None per kind, written here as a listing of *)
(* at most one record.                                                     *)
(***************************************************************************)

\* Most artifact records a notebook holds.
MaxRegistros == 2

\* The kinds in the order their listing queries are issued.
OrdenEscaneo(m) ==
    IF m = "common"
    THEN <<"report", "audio", "slides", "infographic", "video", "mind_map",
           "data_table", "quiz", "flashcards">>
    ELSE <<"report", "audio", "slides", "infographic">>

TiposEscaner(m) == { OrdenEscaneo(m)[n] : n \in DOMAIN OrdenEscaneo(m) }

\* Place of kind t in the order of the queries.
Lugar(m, t) == CHOOSE n \in DOMAIN OrdenEscaneo(m) : OrdenEscaneo(m)[n] = t

\* Language attributes of the records of a notebook.
LanguagesEscaner == {SinAtributo, Language(Str_esES), Language(Str_enUS)}

\* Requested languages.
IdiomasEscaner == {Str_es, Str_EN}

\* The records a notebook holds, numbered in discovery order; records of
\* different kinds are told apart by their kind, so they are written grouped
\* by kind.
Contenidos(m) ==
    UNION { { [n \in 1..c |-> [id |-> n, tipo |-> f[n][1], language |-> f[n][2]]] :
                f \in { g \in [1..c -> TiposEscaner(m) \X LanguagesEscaner] :
                          \A a, b \in 1..c :
                              a < b => Lugar(m, g[a][1]) <= Lugar(m, g[b][1]) } } :
            c \in 0..MaxRegistros }

\* What the listing query of kind tipo returns.
Listado(cont, tipo) ==
    LET sel == SelectSeq(cont, LAMBDA r : r.tipo = tipo)
    IN  [n \in DOMAIN sel |-> [id |-> sel[n].id, language |-> sel[n].language]]

\* Variant of SeFiltra: only reports are filtered.
SoloInformes(tipo) == tipo = "report"

\* The kinds whose block calls artefacto_tiene_idioma.
SeFiltra(tipo) == tipo \in {"report", "audio"}

\* for r in listado: if artefacto_tiene_idioma(r, idioma): ...
Coincidentes(listado, idi) ==
    SelectSeq(listado, LAMBDA r : artefacto_tiene_idioma(r, idi))

\* listado[0] when there is one (main.py; the break after the first match).
Primero(listado) == IF listado = <<>> THEN <<>> ELSE <<listado[1]>>

\* Variant of Todos: only the first record is kept.
SoloPrimero(listado) == Primero(listado)

\* if x: existentes[tipo] = list(x)
Todos(listado) == listado

\* The snapshot entry of a kind whose listing query returned listado.
Guardado(m, tipo, listado, idi) ==
    IF SeFiltra(tipo)
    THEN IF m = "common"
         THEN Coincidentes(listado, idi)
         ELSE Primero(Coincidentes(listado, idi))
    ELSE IF m = "common" THEN Todos(listado) ELSE Primero(listado)

\* The entry of a kind after its block: reports and audio are appended to
\* the entry (common.py); the other blocks assign when the value is truthy
\* and leave the entry alone otherwise.
Almacenado(m, tipo, previo, listado, idi) ==
    IF m = "common" /\ SeFiltra(tipo)
    THEN previo \o Guardado(m, tipo, listado, idi)
    ELSE IF Guardado(m, tipo, listado, idi) # <<>>
         THEN Guardado(m, tipo, listado, idi)
         ELSE previo

\* The dict with an empty entry per kind.
SinRegistros(m) == [t \in TiposEscaner(m) |-> <<>>]

\* Variant of DictNuevo: the dict of the call before is used again.
DictAnterior(m, anterior) == anterior

\* existentes = {'report': [], ...}: a new dict at every call, whatever the
\* call before left.
DictNuevo(m, anterior) == SinRegistros(m)

\* Where the scan goes after the n-th listing query: the next query, then
\* the raw-URL query (common.py only), then the return.
Siguiente(m, n) ==
    IF n < Len(OrdenEscaneo(m)) THEN [fase |-> "listar", k |-> n + 1]
    ELSE IF m = "common" THEN [fase |-> "urls", k |-> n]
    ELSE [fase |-> "fin", k |-> n]

\* Variant of TrasFallo: only the except clause around all the queries
\* catches the exception.
AlExceptExterior(m, n) ==
    IF m = "common" THEN [fase |-> "urls", k |-> n] ELSE [fase |-> "fin", k |-> n]

\* Where the scan goes when the n-th listing query raises: the except clause
\* of that query catches it.
TrasFallo(m, n) == Siguiente(m, n)

\* Answers of _list_raw during a scan.
RespuestasRawEscaner ==
    { [clase |-> "raise", v |-> <<>>],
      Lis(<<>>),
      Lis(<<RawSlides(IdA, Ent(ARTIFACT_STATUS_COMPLETED))>>) }

InitEscaner ==
    /\ MasInactivo
    /\ \E m \in Modulos : GeneradorInactivo(m)
    /\ IdiomaInactivo
    /\ UrlsInactivo
    /\ idioma \in IdiomasEscaner
    /\ contenido \in Contenidos(modulo)
    /\ fase = "listar"
    /\ k = 1
    /\ existentes = DictNuevo(modulo, SinRegistros(modulo))
    /\ fallo = "none"
    /\ consultas = <<>>

\* The listing query of the k-th kind returns.
ListadoRetorna ==
    /\ fase = "listar"
    /\ existentes' =
          [existentes EXCEPT ![OrdenEscaneo(modulo)[k]] =
              Almacenado(modulo, OrdenEscaneo(modulo)[k], @,
                         Listado(contenido, OrdenEscaneo(modulo)[k]), idioma)]
    /\ consultas' = Append(consultas, OrdenEscaneo(modulo)[k])
    /\ fallo' = "none"
    /\ fase' = Siguiente(modulo, k).fase
    /\ k' = Siguiente(modulo, k).k
    /\ UNCHANGED <<idioma, contenido>>
    /\ UNCHANGED <<varsGen, varsInv, varsIdioma, varsUrls, varsMas>>

\* The listing query of the k-th kind raises: except Exception of its block.
ListadoFalla ==
    /\ fase = "listar"
    /\ consultas' = Append(consultas, OrdenEscaneo(modulo)[k])
    /\ fallo' = OrdenEscaneo(modulo)[k]
    /\ fase' = TrasFallo(modulo, k).fase
    /\ k' = TrasFallo(modulo, k).k
    /\ UNCHANGED <<idioma, contenido, existentes>>
    /\ UNCHANGED <<varsGen, varsInv, varsIdioma, varsUrls, varsMas>>

\* urls = await obtener_urls_artefactos(client, notebook_id); return
ConsultarUrls ==
    /\ fase = "urls"
    /\ \E respuesta \in RespuestasRawEscaner :
         /\ artifacts_raw' = respuesta
         /\ urls' = obtener_urls_artefactos(respuesta)
    /\ consultas' = Append(consultas, "_list_raw")
    /\ fallo' = "none"
    /\ fase' = "fin"
    /\ UNCHANGED <<idioma, contenido, k, existentes>>
    /\ UNCHANGED <<fase_u, j, error_u>>
    /\ UNCHANGED <<varsGen, varsInv, varsIdioma, varsMas>>

NextEscaner ==
    \/ ListadoRetorna
    \/ ListadoFalla
    \/ ConsultarUrls

\* One call of verificar_artefactos_existentes.
SpecEscaner == InitEscaner /\ [][NextEscaner]_vars

(***************************************************************************)
(* Two calls of verificar_artefactos_existentes in a row on a service that *)
(* stays as it is: the same records, the same listing queries failing, the *)
(* same answer of _list_raw.                                               *)
(***************************************************************************)

\* The listing queries that fail: none, the one of a kind filtered by
\* language, the one of a kind that is not.
Averias(m) == { {}, {"report"}, {"slides"} }

InitRepeticion ==
    /\ DecodInactivo
    /\ EstadoInactivo
    /\ CuadernoInactivo
    /\ VideoInactivo
    /\ FinalInactivo
    /\ \E m \in Modulos : GeneradorInactivo(m)
    /\ IdiomaInactivo
    /\ UrlsInactivo
    /\ idioma \in IdiomasEscaner
    /\ contenido \in Contenidos(modulo)
    /\ fase = "listar"
    /\ k = 1
    /\ existentes = DictNuevo(modulo, SinRegistros(modulo))
    /\ fallo = "none"
    /\ consultas = <<>>
    /\ averiadas \in Averias(modulo)
    /\ raw_servicio \in RespuestasRawEscaner
    /\ llamada = 1
    /\ primera = [existentes |-> <<>>, urls |-> {}]

\* The listing query of the k-th kind returns, as the service has it.
ListadoRetornaIgual ==
    /\ OrdenEscaneo(modulo)[k] \notin averiadas
    /\ ListadoRetorna

\* The listing query of the k-th kind raises, as the service has it.
ListadoFallaIgual ==
    /\ OrdenEscaneo(modulo)[k] \in averiadas
    /\ ListadoFalla

\* _list_raw answers as the service has it.
ConsultarUrlsIgual ==
    /\ ConsultarUrls
    /\ artifacts_raw' = raw_servicio

\* The first call has returned (existentes, urls); the second call starts:
\* existentes = {...}, urls = {}.
SegundaLlamada ==
    /\ fase = "fin"
    /\ llamada = 1
    /\ llamada' = 2
    /\ primera' = [existentes |-> existentes, urls |-> urls]
    /\ existentes' = DictNuevo(modulo, existentes)
    /\ urls' = {}
    /\ fase' = "listar"
    /\ k' = 1
    /\ fallo' = "none"
    /\ consultas' = <<>>
    /\ UNCHANGED <<idioma, contenido, averiadas, raw_servicio>>
    /\ UNCHANGED <<artifacts_raw, fase_u, j, error_u>>
    /\ UNCHANGED <<varsGen, varsInv, varsIdioma, varsDecod, varsEstado, varsCuaderno,
                   varsVideo,
                   varsFinal>>

NextRepeticion ==
    \/ ListadoRetornaIgual
    \/ ListadoFallaIgual
    \/ ConsultarUrlsIgual
    \/ SegundaLlamada

\* Two scans of the same notebook.
SpecRepeticion == InitRepeticion /\ [][NextRepeticion]_vars

(***************************************************************************)
(* mostrar_estado_artefactos of common.py and the state loop of            *)
(* procesar_video of main.py: the table of kinds and the missing kinds.    *)
(***************************************************************************)

\* A dict and a tuple.
Dic(f) == [clase |-> "dict", v |-> f]
Tupla(s) == [clase |-> "tuple", v |-> s]

\* The snapshot entries of a kind: the lists of at most MaxRegistros
\* records (common.py), None or one record (main.py); None is written as
\* the empty list, which is falsy like it.
EntradasDeTipo(m) ==
    IF m = "common"
    THEN { [n \in 1..c |-> [id |-> n]] : c \in 0..MaxRegistros }
    ELSE { <<>>, <<[id |-> 1]>> }

\* The snapshots of module m: one entry per kind of its scan.
Instantaneas(m) == [TiposEscaner(m) -> EntradasDeTipo(m)]

\* What a caller passes as existentes: a snapshot, or the pair (existentes,
\* urls) that verificar_artefactos_existentes of common.py returns.
ArgumentosEstado(m) ==
    { Dic(f) : f \in Instantaneas(m) }
    \cup IF m = "common"
         THEN { Tupla(<<Dic(f), Dic(<<>>)>>) :
                  f \in { g \in Instantaneas(m) :
                            \A t \in TiposEscaner(m) : Len(g[t]) <= 1 } }
         ELSE {}

\* Variant of tiene_limite: every kind counts as quota-limited.
TodosConLimite(m, tipo) == TRUE

\* nombre, tiene_limite = TIPOS_ARTEFACTOS[tipo]
tiene_limite(m, tipo) == TIPOS_ARTEFACTOS(m)[tipo]

\* The loop "for tipo in ORDEN_ARTEFACTOS": a table row per kind, the kinds
\* whose entry is falsy appended to faltantes, and those of them with a
\* daily quota to faltantes_con_limite.
BucleDeEstado(m, ex) ==
    [faltantes |->
        SelectSeq(ORDEN_ARTEFACTOS(m), LAMBDA t : ex[t] = <<>>),
     faltantes_con_limite |->
        SelectSeq(ORDEN_ARTEFACTOS(m),
                  LAMBDA t : ex[t] = <<>> /\ tiene_limite(m, t)),
     tabla |->
        [n \in DOMAIN ORDEN_ARTEFACTOS(m) |->
            [tipo |-> ORDEN_ARTEFACTOS(m)[n],
             disponible |-> ex[ORDEN_ARTEFACTOS(m)[n]] # <<>>]]]

\* mostrar_estado_artefactos(existentes): existentes[tipo] with a str key
\* raises TypeError on a tuple.
mostrar_estado_artefactos(ex) ==
    IF ex.clase = "dict"
    THEN [clase |-> "return", v |-> BucleDeEstado("common", ex.v)]
    ELSE Lanza("TypeError")

InitEstado ==
    /\ \E m \in Modulos : GeneradorInactivo(m)
    /\ IdiomaInactivo
    /\ UrlsInactivo
    /\ EscanerInactivo
    /\ DecodInactivo
    /\ CuadernoInactivo
    /\ RepeticionInactiva
    /\ VideoInactivo
    /\ FinalInactivo
    /\ snapshot \in ArgumentosEstado(modulo)
    /\ salida_e = [clase |-> "pendiente", v |-> <<>>]

\* The call of mostrar_estado_artefactos ends (common.py); the loop of
\* procesar_video over its own snapshot ends (main.py).
MostrarEstado ==
    /\ salida_e.clase = "pendiente"
    /\ salida_e' = IF modulo = "common"
                   THEN mostrar_estado_artefactos(snapshot)
                   ELSE [clase |-> "return",
                         v |-> BucleDeEstado("main", snapshot.v)]
    /\ UNCHANGED snapshot
    /\ UNCHANGED <<varsGen, varsInv, varsIdioma, varsUrls, varsEscaner>>
    /\ UNCHANGED <<varsDecod, varsCuaderno, varsRepeticion, varsVideo,
                   varsFinal>>

NextEstado == MostrarEstado

\* One call of mostrar_estado_artefactos, or one run of the loop of main.py.
SpecEstado == InitEstado /\ [][NextEstado]_vars

(***************************************************************************)
(* procesar_cuaderno of ver_cuaderno.py: look the notebook up, scan it     *)
(* with verificar_artefactos_existentes of common.py, show its state with  *)
(* mostrar_estado_artefactos.  The steps after that call are modelled up   *)
(* to their first await.                                                   *)
(***************************************************************************)

\* The notebook ids of the account.
IdsDeCuaderno == {"n1", "n2"}

\* What client.notebooks.list() may return: with and without notebook n1.
ListadosDeCuadernos == { L \in SUBSET IdsDeCuaderno : "n2" \in L }

\* Values of artefactos_solicitados: None (written as the empty set, falsy
\* like it) and a set of kinds.
SolicitudesDeCuaderno == { {}, {"report", "audio"} }

InitCuaderno ==
    /\ GeneradorInactivo("common")
    /\ IdiomaInactivo
    /\ UrlsInactivo
    /\ EscanerInactivo
    /\ DecodInactivo
    /\ EstadoInactivo
    /\ RepeticionInactiva
    /\ VideoInactivo
    /\ FinalInactivo
    /\ pc_c = "inicio"
    /\ notebook_id = "n1"
    /\ solicitados_c \in SolicitudesDeCuaderno
    /\ cuadernos = {}
    /\ local_existentes = [clase |-> "None", v |-> <<>>]
    /\ retorno_c = [clase |-> "pendiente", v |-> FALSE]

\* notebook = await obtener_cuaderno(client, notebook_id): the listing
\* returns; without the notebook the function returns False, with it the
\* scan is entered.
ObtenerCuaderno ==
    /\ pc_c = "inicio"
    /\ \E listado \in ListadosDeCuadernos :
         /\ cuadernos' = listado
         /\ IF notebook_id \in listado
            THEN /\ pc_c' = "escanear"
                 /\ UNCHANGED retorno_c
                 /\ idioma' \in IdiomasEscaner
                 /\ contenido' \in Contenidos("common")
                 /\ fase' = "listar"
                 /\ k' = 1
                 /\ existentes' = DictNuevo("common", existentes)
                 /\ UNCHANGED <<fallo, consultas>>
            ELSE /\ pc_c' = "fin"
                 /\ retorno_c' = [clase |-> "return", v |-> FALSE]
                 /\ UNCHANGED varsEscaner
    /\ UNCHANGED <<notebook_id, solicitados_c, local_existentes>>
    /\ UNCHANGED <<varsGen, varsInv, varsIdioma, varsUrls, varsDecod, varsEstado,
                   varsRepeticion, varsVideo,
                   varsFinal>>

\* client.notebooks.list() raises: nothing in procesar_cuaderno catches it.
ObtenerCuadernoFalla ==
    /\ pc_c = "inicio"
    /\ \E e \in Excepciones :
         retorno_c' = [clase |-> "raise", v |-> e]
    /\ pc_c' = "fin"
    /\ UNCHANGED <<notebook_id, solicitados_c, cuadernos, local_existentes>>
    /\ UNCHANGED <<varsGen, varsInv, varsIdioma, varsUrls, varsEscaner,
                   varsDecod, varsEstado, varsRepeticion, varsVideo,
                   varsFinal>>

\* Variant of a_generar: every missing kind is generated.
TodosLosFaltantes(faltan, solicitados) == faltan

\* a_generar = [t for t in faltantes if t in artefactos_solicitados]
a_generar(faltan, solicitados) ==
    SelectSeq(faltan, LAMBDA t : t \in solicitados)

\* Variant of ValorRecibido: the call site unpacks the pair and keeps the
\* snapshot.
SoloLaInstantanea(ex, u) == Dic(ex)

\* existentes = await verificar_artefactos_existentes(...): the value the
\* scan returns, "return existentes, urls", is bound whole.
ValorRecibido(ex, u) == Tupla(<<Dic(ex), Dic(u)>>)

\* The scan has returned: mostrar_estado_artefactos(existentes) and, when
\* it returns, the steps up to the return or to the generation.  An
\* exception of the call leaves procesar_cuaderno.
MostrarEstadoDelCuaderno ==
    /\ pc_c = "escanear"
    /\ fase = "fin"
    /\ local_existentes' = ValorRecibido(existentes, urls)
    /\ LET r == mostrar_estado_artefactos(local_existentes')
       IN  IF r.clase = "raise"
           THEN /\ retorno_c' = [clase |-> "raise", v |-> r.v]
                /\ pc_c' = "fin"
                /\ UNCHANGED salida_e
           ELSE /\ salida_e' = r
                /\ IF a_generar(r.v.faltantes, solicitados_c) # <<>>
                   THEN /\ pc_c' = "generar"
                        /\ UNCHANGED retorno_c
                   ELSE /\ pc_c' = "fin"
                        /\ retorno_c' = [clase |-> "return", v |-> TRUE]
    /\ UNCHANGED <<notebook_id, solicitados_c, cuadernos, snapshot>>
    /\ UNCHANGED <<varsGen, varsInv, varsIdioma, varsUrls, varsEscaner, varsDecod,
                   varsRepeticion, varsVideo,
                   varsFinal>>

NextCuaderno ==
    \/ ObtenerCuaderno
    \/ ObtenerCuadernoFalla
    \/ ListadoRetorna
    \/ ListadoFalla
    \/ ConsultarUrls
    \/ MostrarEstadoDelCuaderno

\* One call of procesar_cuaderno.
SpecCuaderno == InitCuaderno /\ [][NextCuaderno]_vars

(***************************************************************************)
(* procesar_video of main.py: validate the URL, read the metadata, look    *)
(* for the video's notebook; for a notebook found, scan it and generate    *)
(* the requested kinds that are missing; otherwise create the notebook,    *)
(* add the video as its source and generate the requested kinds.  The      *)
(* scan and the generation are those of main.py, step by step.             *)
(***************************************************************************)

\* Values of artefactos_solicitados: the default, one kind with a daily
\* quota, every kind, and the empty set of a direct call.
SolicitudesDeVideo ==
    { {"report"}, {"audio"}, {"report", "slides", "infographic", "audio"}, {} }

\* What the notebook found may hold: nothing, or one record.
ContenidosDeVideo == { c \in Contenidos("main") : Len(c) <= 1 }

InitVideo ==
    /\ GeneradorInactivo("main")
    /\ IdiomaInactivo
    /\ UrlsInactivo
    /\ EscanerInactivo
    /\ DecodInactivo
    /\ EstadoInactivo
    /\ CuadernoInactivo
    /\ RepeticionInactiva
    /\ pc_v = "inicio"
    /\ url_v \in {"valida", "invalida"}
    /\ solicitados_v \in SolicitudesDeVideo
    /\ informe_flag \in BOOLEAN
    /\ origen_v = "ninguno"
    /\ fuente_v = "pendiente"
    /\ informe_v = "no"
    /\ retorno_v = [clase |-> "pendiente", v |-> FALSE]
    /\ metadatos_v = "pendiente"
    /\ contactos = {}
    /\ FinalInactivo

\* What the actions of procesar_video leave alone besides the scan and the
\* generation.
restoDeVideo ==
    <<varsInv, varsIdioma, varsUrls, varsDecod, varsEstado, varsCuaderno,
      varsRepeticion, varsFinal>>

\* Variant of ValidarUrl: the run goes on whatever video_id is.
ValidarUrlSinComprobar ==
    /\ pc_v = "inicio"
    /\ pc_v' = "metadatos"
    /\ UNCHANGED retorno_v
    /\ UNCHANGED <<metadatos_v, contactos>>
    /\ UNCHANGED <<url_v, solicitados_v, informe_flag, origen_v, fuente_v, informe_v>>
    /\ UNCHANGED <<varsGen, varsEscaner, restoDeVideo>>

\* video_id = extraer_video_id(url); if not video_id: return False
ValidarUrl ==
    /\ pc_v = "inicio"
    /\ IF url_v = "invalida"
       THEN /\ pc_v' = "fin"
            /\ retorno_v' = [clase |-> "return", v |-> FALSE]
       ELSE /\ pc_v' = "metadatos"
            /\ UNCHANGED retorno_v
    /\ UNCHANGED <<metadatos_v, contactos>>
    /\ UNCHANGED <<url_v, solicitados_v, informe_flag, origen_v, fuente_v, informe_v>>
    /\ UNCHANGED <<varsGen, varsEscaner, restoDeVideo>>

\* metadatos = obtener_metadatos_video(url): on an exception, return False
ObtenerMetadatos ==
    /\ pc_v = "metadatos"
    /\ \/ /\ metadatos_v' = "ok"
          /\ pc_v' = "buscar"
          /\ UNCHANGED retorno_v
       \/ /\ metadatos_v' = "error"
          /\ pc_v' = "fin"
          /\ retorno_v' = [clase |-> "return", v |-> FALSE]
    /\ UNCHANGED contactos
    /\ UNCHANGED <<url_v, solicitados_v, informe_flag, origen_v, fuente_v, informe_v>>
    /\ UNCHANGED <<varsGen, varsEscaner, restoDeVideo>>

\* notebook = await buscar_cuaderno_existente(client, video_id): a notebook
\* is found and its scan entered.
CuadernoEncontrado ==
    /\ pc_v = "buscar"
    /\ pc_v' = "escanear"
    /\ origen_v' = "existente"
    /\ idioma' \in IdiomasEscaner
    /\ contenido' \in ContenidosDeVideo
    /\ fase' = "listar"
    /\ k' = 1
    /\ existentes' = DictNuevo("main", existentes)
    /\ UNCHANGED <<fallo, consultas>>
    /\ contactos' = contactos \cup {"list"}
    /\ UNCHANGED metadatos_v
    /\ UNCHANGED <<url_v, solicitados_v, informe_flag, fuente_v, informe_v, retorno_v>>
    /\ UNCHANGED <<varsGen, restoDeVideo>>

\* No notebook is found: the creation comes next.
CuadernoNoEncontrado ==
    /\ pc_v = "buscar"
    /\ pc_v' = "crear"
    /\ contactos' = contactos \cup {"list"}
    /\ UNCHANGED metadatos_v
    /\ UNCHANGED <<url_v, solicitados_v, informe_flag, origen_v, fuente_v,
                   informe_v, retorno_v>>
    /\ UNCHANGED <<varsGen, varsEscaner, restoDeVideo>>

\* client.notebooks.list() or client.notebooks.create() raises: nothing in
\* procesar_video catches it.
ClienteFalla ==
    /\ pc_v \in {"buscar", "crear"}
    /\ \E e \in Excepciones : retorno_v' = [clase |-> "raise", v |-> e]
    /\ pc_v' = "fin"
    /\ contactos' = contactos \cup {IF pc_v = "buscar" THEN "list" ELSE "create"}
    /\ UNCHANGED metadatos_v
    /\ UNCHANGED <<url_v, solicitados_v, informe_flag, origen_v, fuente_v, informe_v>>
    /\ UNCHANGED <<varsGen, varsEscaner, restoDeVideo>>

\* The call generar_artefactos(client, notebook.id, lista, idioma, retardo).
LlamarGenerar(lista, idi) ==
    /\ faltantes' = lista
    /\ idioma_g' = idi
    /\ pc' = "inicio"
    /\ UNCHANGED kwargs_enviados
    /\ UNCHANGED <<modulo, i, exitosos, cuotas_agotadas, resultado, estado,
                   despachos, retardos, enVuelo, excepcion, retorno>>

\* The steps after the generation, up to the next await or the return:
\* mostrar_informe when it is asked for (and, for a notebook found, a report
\* is in the snapshot), else return True.
TrasLaGeneracion ==
    IF informe_flag /\ (origen_v' = "existente" => existentes["report"] # <<>>)
    THEN /\ pc_v' = "informe"
         /\ UNCHANGED retorno_v
    ELSE /\ pc_v' = "fin"
         /\ retorno_v' = [clase |-> "return", v |-> TRUE]

\* The scan of the notebook found has returned: the state loop, then the
\* generation of the requested kinds that are missing, if any.
EstadoDelExistente ==
    /\ pc_v = "escanear"
    /\ fase = "fin"
    /\ UNCHANGED origen_v
    /\ LET falta == BucleDeEstado("main", existentes).faltantes
       IN  IF a_generar(falta, solicitados_v) # <<>>
           THEN /\ LlamarGenerar(a_generar(falta, solicitados_v), idioma)
                /\ pc_v' = "generando"
                /\ UNCHANGED retorno_v
           ELSE /\ TrasLaGeneracion
                /\ UNCHANGED varsGen
    /\ UNCHANGED <<metadatos_v, contactos>>
    /\ UNCHANGED <<url_v, solicitados_v, informe_flag, fuente_v, informe_v>>
    /\ UNCHANGED <<varsEscaner, restoDeVideo>>

\* notebook = await client.notebooks.create(nombre_cuaderno)
CrearCuaderno ==
    /\ pc_v = "crear"
    /\ pc_v' = "fuente"
    /\ origen_v' = "nuevo"
    /\ contactos' = contactos \cup {"create"}
    /\ UNCHANGED metadatos_v
    /\ UNCHANGED <<url_v, solicitados_v, informe_flag, fuente_v, informe_v, retorno_v>>
    /\ UNCHANGED <<varsGen, varsEscaner, restoDeVideo>>

\* Variant of TrasLaFuente: an exception of add_url ends the call.
FuenteFatal(resultado_fuente) ==
    IF resultado_fuente = "ok" THEN "generar" ELSE "abortar"

\* try: await client.sources.add_url(...) except Exception: a warning is
\* printed; the generation comes next either way.
TrasLaFuente(resultado_fuente) == "generar"

\* The source is added, or adding it times out or raises; then
\* tipos_a_generar = [t for t in ORDEN_ARTEFACTOS if t in
\* artefactos_solicitados] and the call of generar_artefactos.
AnadirFuente ==
    /\ pc_v = "fuente"
    /\ \E resultado_fuente \in {"ok"} \cup Excepciones :
         /\ fuente_v' = IF resultado_fuente = "ok" THEN "ok" ELSE "aviso"
         /\ IF TrasLaFuente(resultado_fuente) = "generar"
            THEN /\ LlamarGenerar(ListaDelLlamador("main", solicitados_v), Str_es)
                 /\ pc_v' = "generando"
                 /\ UNCHANGED retorno_v
            ELSE /\ pc_v' = "fin"
                 /\ retorno_v' = [clase |-> "raise", v |-> resultado_fuente]
                 /\ UNCHANGED varsGen
    /\ contactos' = contactos \cup {"add_url"}
    /\ UNCHANGED metadatos_v
    /\ UNCHANGED <<url_v, solicitados_v, informe_flag, origen_v, informe_v>>
    /\ UNCHANGED <<varsEscaner, restoDeVideo>>

\* generar_artefactos has returned.
GeneracionTerminada ==
    /\ pc_v = "generando"
    /\ pc = "fin"
    /\ UNCHANGED origen_v
    /\ TrasLaGeneracion
    /\ UNCHANGED <<metadatos_v, contactos>>
    /\ UNCHANGED <<url_v, solicitados_v, informe_flag, fuente_v, informe_v>>
    /\ UNCHANGED <<varsGen, varsEscaner, restoDeVideo>>

\* await mostrar_informe(client, notebook.id): the report is shown, or the
\* download raises and mostrar_informe catches it; return True
MostrarInforme ==
    /\ pc_v = "informe"
    /\ informe_v' \in {"mostrado", "error"}
    /\ pc_v' = "fin"
    /\ retorno_v' = [clase |-> "return", v |-> TRUE]
    /\ UNCHANGED <<metadatos_v, contactos>>
    /\ UNCHANGED <<url_v, solicitados_v, informe_flag, origen_v, fuente_v>>
    /\ UNCHANGED <<varsGen, varsEscaner, restoDeVideo>>

NextVideo ==
    \/ ValidarUrl
    \/ ObtenerMetadatos
    \/ CuadernoEncontrado
    \/ CuadernoNoEncontrado
    \/ ClienteFalla
    \/ ListadoRetorna
    \/ ListadoFalla
    \/ EstadoDelExistente
    \/ CrearCuaderno
    \/ AnadirFuente
    \/ RetornarVacio
    \/ Entrar
    \/ Omitir
    \/ Retardo
    \/ Despachar
    \/ RespuestaFallida
    \/ RespuestaConTarea
    \/ RespuestaSinTarea
    \/ EsperaCompleta
    \/ Excepcion
    \/ Retornar
    \/ GeneracionTerminada
    \/ MostrarInforme

\* One call of procesar_video.
SpecVideo == InitVideo /\ [][NextVideo]_vars

\* The same call, where the event loop keeps running the coroutine and the
\* external service answers every call, with a value or an exception.
SpecVideoJusta == InitVideo /\ [][NextVideo]_vars /\ WF_vars(NextVideo)

(***************************************************************************)
(* Two runs of procesar_video for the same URL.  The URL is held as         *)
(* urlparse splits it: the host name, the path as the list path.split('/') *)
(* gives, and the first value of the query parameter v (None without one). *)
(* The account's listing at the time of a run holds the notebooks it had   *)
(* before the first run and those the earlier run created.                 *)
(***************************************************************************)

Str_YT == <<"Y", "T", "-">>
Str_separador == <<" ", "-", " ">>
Str_watch == <<"w", "a", "t", "c", "h">>
Str_embed == <<"e", "m", "b", "e", "d">>

\* '/'.join(segmentos)
RECURSIVE Unir(_)
Unir(segmentos) ==
    IF segmentos = <<>> THEN <<>>
    ELSE IF Len(segmentos) = 1 THEN segmentos[1]
    ELSE segmentos[1] \o <<"/">> \o Unir(Tail(segmentos))

\* Variant of extraer_video_id: for youtu.be, the first path segment only.
PrimerSegmento(url) ==
    IF url.hostname \in {"www.youtube.com", "youtube.com"}
    THEN IF url.path = <<<<>>, Str_watch>>
         THEN url.v
         ELSE IF Len(url.path) >= 3 /\ url.path[1] = <<>> /\ url.path[2] = Str_embed
              THEN Cad(url.path[3])
              ELSE Nada
    ELSE IF url.hostname = "youtu.be"
         THEN Cad(IF Len(url.path) >= 2 THEN url.path[2] ELSE <<>>)
         ELSE Nada

\* extraer_video_id(url): query v of /watch, the third piece of /embed/...,
\* the whole path after its first character for youtu.be, else None.
extraer_video_id(url) ==
    IF url.hostname \in {"www.youtube.com", "youtube.com"}
    THEN IF url.path = <<<<>>, Str_watch>>
         THEN url.v
         ELSE IF Len(url.path) >= 3 /\ url.path[1] = <<>> /\ url.path[2] = Str_embed
              THEN Cad(url.path[3])
              ELSE Nada
    ELSE IF url.hostname = "youtu.be"
         THEN Cad(Unir(Tail(url.path)))
         ELSE Nada

\* The characters limpiar_texto removes.
Problematicos == {"<", ">", ":", "\"", "/", "\\", "|", "?", "*"}

\* limpiar_texto(texto, max_length), for a text no longer than max_length
\* and without blanks at its ends.
limpiar_texto(texto) == SelectSeq(texto, LAMBDA c : c \notin Problematicos)

\* generar_nombre_cuaderno(metadatos): f"YT-{video_id} - {titulo} - {fecha} - {canal}"
generar_nombre_cuaderno(metadatos) ==
    Str_YT \o metadatos.video_id \o Str_separador
      \o limpiar_texto(metadatos.titulo) \o Str_separador
      \o metadatos.fecha \o Str_separador \o limpiar_texto(metadatos.canal)

\* buscar_cuaderno_existente: the place in the listing of the first notebook
\* whose title starts with f"YT-{video_id}", 0 for None.
buscar_cuaderno_existente(notebooks, video_id) ==
    LET prefijo == Str_YT \o video_id.v
        hallados == { n \in DOMAIN notebooks : startswith(notebooks[n], prefijo) }
    IN  IF hallados = {} THEN 0 ELSE Menor(hallados)

\* The id of the video, as the metadata carry it.
IdDelVideo == <<"a", "b">>

\* What obtener_metadatos_video returns for the video, whichever URL names
\* it.
MetadatosDelVideo ==
    [titulo |-> <<"t", ":">>, canal |-> <<"c">>, fecha |-> <<"f">>,
     video_id |-> IdDelVideo]

\* The metadata of another video.
MetadatosDeOtro ==
    [titulo |-> <<"o">>, canal |-> <<"c">>, fecha |-> <<"f">>,
     video_id |-> <<"x", "y">>]

\* URLs of the video: watch?v=ab, youtu.be/ab, youtu.be/ab/, embed/ab; and
\* URLs that name no video: another host, /watch without v.
UrlsDeVideo ==
    { [hostname |-> "www.youtube.com", path |-> <<<<>>, Str_watch>>, v |-> Cad(IdDelVideo)],
      [hostname |-> "youtu.be", path |-> <<<<>>, IdDelVideo>>, v |-> Nada],
      [hostname |-> "youtu.be", path |-> <<<<>>, IdDelVideo, <<>>>>, v |-> Nada],
      [hostname |-> "youtube.com", path |-> <<<<>>, Str_embed, IdDelVideo>>, v |-> Nada],
      [hostname |-> "example.com", path |-> <<<<>>, Str_watch>>, v |-> Cad(IdDelVideo)],
      [hostname |-> "www.youtube.com", path |-> <<<<>>, Str_watch>>, v |-> Nada] }

\* The titles in the account before the first run: none, another video's
\* notebook, and with it a notebook of this video.
ListadosPrevios ==
    { <<>>,
      <<generar_nombre_cuaderno(MetadatosDeOtro)>>,
      <<generar_nombre_cuaderno(MetadatosDeOtro),
        generar_nombre_cuaderno(MetadatosDelVideo)>> }

\* What client.notebooks.list() returns during the run under way.
TitulosEnElServicio == titulos_previos \o creados_antes

InitDosVideos ==
    /\ GeneradorInactivo("main")
    /\ IdiomaInactivo
    /\ UrlsInactivo
    /\ EscanerInactivo
    /\ DecodInactivo
    /\ EstadoInactivo
    /\ CuadernoInactivo
    /\ RepeticionInactiva
    /\ pc_v = "inicio"
    /\ url_texto \in UrlsDeVideo
    /\ url_v = IF Verdadero(extraer_video_id(url_texto)) THEN "valida" ELSE "invalida"
    /\ solicitados_v = {"report"}
    /\ informe_flag = FALSE
    /\ origen_v = "ninguno"
    /\ fuente_v = "pendiente"
    /\ informe_v = "no"
    /\ retorno_v = [clase |-> "pendiente", v |-> FALSE]
    /\ metadatos_v = "pendiente"
    /\ contactos = {}
    /\ titulos_previos \in ListadosPrevios
    /\ creados_antes = <<>>
    /\ ejecucion = 1
    /\ EquivalenciaInactiva
    /\ ListarInactivo

\* buscar_cuaderno_existente returns a notebook of the listing.
BuscarYEncontrar ==
    /\ pc_v = "buscar"
    /\ buscar_cuaderno_existente(TitulosEnElServicio, extraer_video_id(url_texto)) # 0
    /\ CuadernoEncontrado

\* buscar_cuaderno_existente returns None.
BuscarSinEncontrar ==
    /\ pc_v = "buscar"
    /\ buscar_cuaderno_existente(TitulosEnElServicio, extraer_video_id(url_texto)) = 0
    /\ CuadernoNoEncontrado

\* The first run has ended; procesar_video is called again with the same
\* arguments, and the account now holds the notebook the first run created,
\* under the name generar_nombre_cuaderno gave it.
SegundaEjecucion ==
    /\ pc_v = "fin"
    /\ ejecucion = 1
    /\ ejecucion' = 2
    /\ creados_antes' =
          IF origen_v = "nuevo"
          THEN Append(creados_antes, generar_nombre_cuaderno(MetadatosDelVideo))
          ELSE creados_antes
    /\ pc_v' = "inicio"
    /\ origen_v' = "ninguno"
    /\ fuente_v' = "pendiente"
    /\ retorno_v' = [clase |-> "pendiente", v |-> FALSE]
    /\ metadatos_v' = "pendiente"
    /\ contactos' = {}
    /\ faltantes' = <<>>
    /\ pc' = "inactivo"
    /\ i' = 0
    /\ exitosos' = 0
    /\ cuotas_agotadas' = {}
    /\ resultado' = SinResultado
    /\ estado' = [t \in DOMAIN CONFIG_ARTEFACTOS(modulo) |-> "NotStarted"]
    /\ despachos' = <<>>
    /\ kwargs_enviados' = <<>>
    /\ retardos' = 0
    /\ enVuelo' = {}
    /\ excepcion' = "none"
    /\ retorno' = -1
    /\ idioma_g' = Str_es
    /\ idioma' = <<>>
    /\ contenido' = <<>>
    /\ fase' = "inactivo"
    /\ k' = 0
    /\ existentes' = <<>>
    /\ fallo' = "none"
    /\ consultas' = <<>>
    /\ UNCHANGED <<modulo, url_v, solicitados_v, informe_flag, informe_v,
                   url_texto, titulos_previos>>
    /\ UNCHANGED <<varsInv, varsIdioma, varsUrls, varsDecod, varsEstado,
                   varsCuaderno, varsRepeticion, varsEquivalencia,
                   varsListar>>

NextDosVideos ==
    \/ ValidarUrl
    \/ ObtenerMetadatos
    \/ BuscarYEncontrar
    \/ BuscarSinEncontrar
    \/ ClienteFalla
    \/ ListadoRetorna
    \/ ListadoFalla
    \/ EstadoDelExistente
    \/ CrearCuaderno
    \/ AnadirFuente
    \/ Entrar
    \/ Despachar
    \/ RespuestaFallida
    \/ RespuestaConTarea
    \/ RespuestaSinTarea
    \/ EsperaCompleta
    \/ Excepcion
    \/ Retornar
    \/ GeneracionTerminada
    \/ SegundaEjecucion

\* Two runs of procesar_video in a row.
SpecDosVideos == InitDosVideos /\ [][NextDosVideos]_vars

(***************************************************************************)
(* generar_artefactos of main.py and of common.py, each run from its first *)
(* statement to its return on the same list, with the external service     *)
(* giving the same answer to the same call.  A run is the sequence of the  *)
(* calls it issued to the service and the count it returned; the           *)
(* inter-task delay is no call to the service.                             *)
(***************************************************************************)

\* The kinds both modules generate.
TiposComunes == DOMAIN CONFIG_ARTEFACTOS("main")

\* The lists over those kinds, repetitions allowed.
ListasComunes == UNION { [1..n -> TiposComunes] : n \in 0..MaxListaCorta }

\* What the service does with a generation call: it returns None, a failed
\* status with or without the rate-limit flag, a status with or without a
\* task id, or the call raises.
RespuestasDeGuion ==
    { r \in RespuestasAsincronas :
        \/ r.clase = "None"
        \/ /\ r.status = "failed"
           /\ r.is_rate_limited \in {"True", "False"}
           /\ r.task_id = ""
        \/ /\ r.status = "pending"
           /\ r.is_rate_limited = "absent" }
    \cup { [clase |-> "raise", e |-> "RPCError"] }

\* What the service does with wait_for_completion: it returns, or raises.
EsperasDeGuion == {"ok", "TimeoutError"}

\* The answers to the calls of iteration 1, 2, ...
Guiones ==
    [ generar : [1..MaxListaCorta -> RespuestasDeGuion],
      esperar : [1..MaxListaCorta -> EsperasDeGuion] ]

LlamadaGenerar(m, tipo) ==
    [op |-> "generate", tipo |-> tipo, kwargs |-> Kwargs(m, tipo, idioma_g)]
LlamadaEsperar(tipo) ==
    [op |-> "wait_for_completion", tipo |-> tipo, kwargs |-> {}]

\* The loop of generar_artefactos of module m from iteration n on, with the
\* set agotadas of exhausted groups, the calls issued so far and the count
\* so far; the value is the run's calls and the count returned.
RECURSIVE Corrida(_, _, _, _, _, _, _)
Corrida(m, lista, g, n, agotadas, llamadas, cuenta) ==
    IF n > Len(lista)
    THEN [llamadas |-> llamadas, retorno |-> cuenta]
    ELSE
      LET tipo == lista[n]
          r == g.generar[n]
          trasGenerar == Append(llamadas, LlamadaGenerar(m, tipo))
          trasEsperar == Append(trasGenerar, LlamadaEsperar(tipo))
      IN  IF DebeOmitir(tipo, agotadas)
          THEN Corrida(m, lista, g, n + 1, agotadas, llamadas, cuenta)
          ELSE IF r.clase = "raise"
          THEN Corrida(m, lista, g, n + 1, agotadas, trasGenerar, cuenta)
          ELSE IF tipo \in ARTEFACTOS_SINCRONOS(m)
          THEN Corrida(m, lista, g, n + 1, agotadas, trasGenerar,
                       IF ExitoSincrono(r) THEN ContarExito(cuenta) ELSE cuenta)
          ELSE IF EsFallo(r)
          THEN Corrida(m, lista, g, n + 1,
                       IF LimiteAlcanzado(r)
                       THEN MarcarCuota(m, agotadas, GrupoCuota(tipo))
                       ELSE agotadas,
                       trasGenerar, cuenta)
          ELSE IF RequiereEspera(r)
          THEN Corrida(m, lista, g, n + 1, agotadas, trasEsperar,
                       IF g.esperar[n] = "ok" THEN ContarExito(cuenta) ELSE cuenta)
          ELSE Corrida(m, lista, g, n + 1, agotadas, trasGenerar,
                       ContarExito(cuenta))

\* generar_artefactos(client, notebook_id, faltantes, idioma, retardo) of
\* module m: "if not faltantes: return 0", else the loop from its start.
generar_artefactos(m, lista, g) ==
    IF lista = <<>>
    THEN [llamadas |-> <<>>, retorno |-> 0]
    ELSE Corrida(m, lista, g, 1, CuotasIniciales, <<>>, 0)

InitEquivalencia ==
    /\ GeneradorInactivo("main")
    /\ IdiomaInactivo
    /\ UrlsInactivo
    /\ EscanerInactivo
    /\ DecodInactivo
    /\ EstadoInactivo
    /\ CuadernoInactivo
    /\ RepeticionInactiva
    /\ VideoInactivo
    /\ DosVideosInactivo
    /\ ListarInactivo
    /\ lista_q \in ListasComunes
    /\ guion \in Guiones
    /\ salida_q = [clase |-> "pendiente", main |-> <<>>, common |-> <<>>]

\* Both functions are run on the list, with the answers of the script.
EjecutarAmbos ==
    /\ salida_q.clase = "pendiente"
    /\ salida_q' = [clase |-> "fin",
                    main |-> generar_artefactos("main", lista_q, guion),
                    common |-> generar_artefactos("common", lista_q, guion)]
    /\ UNCHANGED <<lista_q, guion>>
    /\ UNCHANGED <<varsGen, varsInv, varsIdioma, varsUrls, varsEscaner, varsDecod,
                   varsEstado, varsCuaderno, varsRepeticion, varsVideo,
                   varsDosVideos, varsListar>>

NextEquivalencia == EjecutarAmbos

SpecEquivalencia == InitEquivalencia /\ [][NextEquivalencia]_vars

\* One call of either caller of the scan: procesar_video of main.py or
\* procesar_cuaderno of ver_cuaderno.py.
InitLlamadores == InitVideo \/ InitCuaderno

NextLlamadores ==
    \/ NextVideo
    \/ NextCuaderno

SpecLlamadores == InitLlamadores /\ [][NextLlamadores]_vars

(***************************************************************************)
(* listar_cuadernos.py: the listing of the notebooks, sorted by title or   *)
(* by a date.                                                              *)
(***************************************************************************)

\* A datetime object: naive or aware, and its instant (a day of January
\* 2024 at midnight; for an aware one, in UTC).
Fecha(zona, t) == [clase |-> "datetime", v |-> <<zona, t>>]

\* datetime.min: naive, before every other instant.
datetime_min == Fecha("naive", 0)

Str_2024_01 == <<"2", "0", "2", "4", "-", "0", "1", "-">>
Str_T0000 == <<"T", "0", "0", ":", "0", "0">>
Str_utc == <<"+", "0", "0", ":", "0", "0">>
Str_x == <<"x">>

\* The characters of the texts compared, in the order of their code points.
Caracteres ==
    <<"+", "-", "0", "1", "2", "3", "4", "5", "6", "7", "8", "9", ":",
      "B", "T", "Z", "a", "b", "x">>

Codigo(c) == CHOOSE n \in DOMAIN Caracteres : Caracteres[n] = c

Digitos == {"0", "1", "2", "3", "4", "5", "6", "7", "8", "9"}

ValorDeDigito(c) == Codigo(c) - Codigo("0")

\* str.replace(viejo, nuevo) for a one-character viejo.
RECURSIVE replace(_, _, _)
replace(s, viejo, nuevo) ==
    IF s = <<>> THEN <<>>
    ELSE (IF Head(s) = viejo THEN nuevo ELSE <<Head(s)>>)
             \o replace(Tail(s), viejo, nuevo)

\* datetime.fromisoformat on the texts of January 2024: a date, a date with
\* the time T00:00, or that with the offset +00:00; anything else raises
\* ValueError.
fromisoformat(s) ==
    LET fecha == SubSeq(s, 1, 10)
        resto == SubSeq(s, 11, Len(s))
        dia == 10 * ValorDeDigito(s[9]) + ValorDeDigito(s[10])
    IN  IF \/ Len(s) < 10
           \/ SubSeq(fecha, 1, 8) # Str_2024_01
           \/ fecha[9] \notin Digitos
           \/ fecha[10] \notin Digitos
        THEN [clase |-> "raise", v |-> "ValueError"]
        ELSE IF resto \in {<<>>, Str_T0000}
        THEN Fecha("naive", dia)
        ELSE IF resto = Str_T0000 \o Str_utc
        THEN Fecha("aware", dia)
        ELSE [clase |-> "raise", v |-> "ValueError"]

\* a or b
O(a, b) == IF Verdadero(a) THEN a ELSE b

\* Variant of obtener_fecha_para_ordenar: a value that is no datetime, and
\* a datetime with a time zone, are taken for datetime.min.
FechaSiempreComparable(notebook, campo) ==
    LET valor == IF campo = "creacion"
                 THEN O(notebook.created_at, notebook.create_time)
                 ELSE O(notebook.updated_at, notebook.update_time)
        leida == IF valor.clase = "str"
                 THEN fromisoformat(replace(valor.v, "Z", Str_utc))
                 ELSE valor
    IN  IF campo \notin {"creacion", "modificacion"} THEN Nada
        ELSE IF leida.clase = "datetime" /\ leida.v[1] = "naive" THEN leida
        ELSE datetime_min

\* obtener_fecha_para_ordenar(notebook, campo): a missing attribute reads as
\* None.
obtener_fecha_para_ordenar(notebook, campo) ==
    LET valor == IF campo = "creacion"
                 THEN O(notebook.created_at, notebook.create_time)
                 ELSE O(notebook.updated_at, notebook.update_time)
        leida == fromisoformat(replace(valor.v, "Z", Str_utc))
    IN  IF campo \notin {"creacion", "modificacion"} THEN Nada
        ELSE IF valor.clase = "str"
        THEN (IF leida.clase = "raise" THEN valor ELSE leida)
        ELSE O(valor, datetime_min)

\* key of the sort by title: (getattr(x[0], 'title', '') or '').lower()
ClaveNombre(notebook) == Cad(lower(O(notebook.title, Cad(<<>>)).v))

\* The key of notebook under --ordenar campo.
Clave(notebook, campo) ==
    IF campo = "nombre" THEN ClaveNombre(notebook)
    ELSE obtener_fecha_para_ordenar(notebook, campo)

\* a < b is defined: two str, or two datetime that are both naive or both
\* aware.  Otherwise the comparison raises TypeError.
Comparables(a, b) ==
    \/ a.clase = "str" /\ b.clase = "str"
    \/ a.clase = "datetime" /\ b.clase = "datetime" /\ a.v[1] = b.v[1]

\* s < t for two str.
RECURSIVE MenorCadena(_, _)
MenorCadena(s, t) ==
    IF t = <<>> THEN FALSE
    ELSE IF s = <<>> THEN TRUE
    ELSE IF Head(s) # Head(t) THEN Codigo(Head(s)) < Codigo(Head(t))
    ELSE MenorCadena(Tail(s), Tail(t))

\* a < b for two comparable keys.
MenorQue(a, b) ==
    IF a.clase = "str" THEN MenorCadena(a.v, b.v) ELSE a.v[2] < b.v[2]

\* The element at position a of the list is placed before the one at b:
\* by key, and by position when neither key is less (the sort is stable,
\* with reverse too).
VaAntes(claves, a, b, reverse) ==
    LET menor == IF reverse THEN MenorQue(claves[b], claves[a])
                 ELSE MenorQue(claves[a], claves[b])
        mayor == IF reverse THEN MenorQue(claves[a], claves[b])
                 ELSE MenorQue(claves[b], claves[a])
    IN  menor \/ (~mayor /\ a < b)

\* sorted(lista, key=..., reverse=...): the sorted list, or TypeError when
\* two keys cannot be compared.
sorted(lista, campo, reverse) ==
    LET claves == [n \in DOMAIN lista |-> Clave(lista[n], campo)]
        lugar(a) == 1 + Cardinality({ b \in DOMAIN lista :
                                        b # a /\ VaAntes(claves, b, a, reverse) })
    IN  IF \E a, b \in DOMAIN lista : a # b /\ ~Comparables(claves[a], claves[b])
        THEN [clase |-> "error", v |-> <<>>, e |-> "TypeError"]
        ELSE [clase |-> "listado",
              v |-> [n \in DOMAIN lista |->
                        lista[CHOOSE a \in DOMAIN lista : lugar(a) = n]],
              e |-> "none"]

\* tiene_idioma(idiomas_cuaderno, idioma_filtro)
tiene_idioma(idiomas_cuaderno, filtro) ==
    \E lang \in { idiomas_cuaderno.report[n] : n \in DOMAIN idiomas_cuaderno.report }
             \cup { idiomas_cuaderno.audio[n] : n \in DOMAIN idiomas_cuaderno.audio } :
        /\ lang # <<>>
        /\ startswith(lower(lang), lower(filtro))

\* notebooks_con_info: the notebooks with an id and an artifact in the
\* language asked for, or all of them without --idioma.
notebooks_con_info(notebooks, filtro) ==
    IF Verdadero(filtro)
    THEN SelectSeq(notebooks,
                   LAMBDA nb : Verdadero(nb.id) /\ tiene_idioma(nb.idiomas, filtro.v))
    ELSE notebooks

\* What a run of listar_cuadernos prints for the listing notebooks.
listar_cuadernos(notebooks, campo, reverse, filtro) ==
    IF notebooks = <<>>
    THEN [clase |-> "vacio", v |-> <<>>, e |-> "none"]
    ELSE IF notebooks_con_info(notebooks, filtro) = <<>>
    THEN [clase |-> "sin_idioma", v |-> <<>>, e |-> "none"]
    ELSE sorted(notebooks_con_info(notebooks, filtro), campo, reverse)

\* Longest listing of notebooks the service returns.
MaxCuadernos == 2

Str_dia3 == Str_2024_01 \o <<"0", "3">>
Str_dia4Z == Str_2024_01 \o <<"0", "4">> \o Str_T0000 \o <<"Z">>

\* The dates of a notebook: a datetime without and with time zone, an ISO
\* text without and with time zone, a text that is no date, and none.
FechasDeCuaderno ==
    { Fecha("naive", 2), Fecha("aware", 1), Cad(Str_dia3), Cad(Str_dia4Z),
      Cad(Str_x), Nada }

SinIdiomas == [report |-> <<>>, audio |-> <<>>]

\* A notebook of the listing; idiomas is what obtener_idiomas_cuaderno
\* gathers for it from the service.
Cuaderno(title, created_at, create_time, updated_at, update_time, idiomas) ==
    [id |-> Cad(<<"n">>), title |-> title, created_at |-> created_at,
     create_time |-> create_time, updated_at |-> updated_at,
     update_time |-> update_time, idiomas |-> idiomas]

\* The notebooks the service may hold: one per date (as created_at and as
\* update_time), one dated through create_time and updated_at, and one
\* without title and without dates.
Cuadernos ==
    { Cuaderno(Cad(<<"B">>), f, Nada, Nada, f,
               [report |-> <<Str_esES>>, audio |-> <<>>]) :
        f \in FechasDeCuaderno }
    \cup { Cuaderno(Cad(<<"a">>), Nada, Fecha("naive", 1), Fecha("naive", 3),
                    Nada, [report |-> <<>>, audio |-> <<Str_enUS>>]),
           Cuaderno(Nada, Nada, Nada, Nada, Nada, SinIdiomas) }

InitListar ==
    /\ \E m \in Modulos : GeneradorInactivo(m)
    /\ IdiomaInactivo
    /\ UrlsInactivo
    /\ EscanerInactivo
    /\ DecodInactivo
    /\ EstadoInactivo
    /\ CuadernoInactivo
    /\ RepeticionInactiva
    /\ VideoInactivo
    /\ DosVideosInactivo
    /\ EquivalenciaInactiva
    /\ notebooks_l \in Secuencias(Cuadernos, 0, MaxCuadernos)
    /\ ordenar_por \in {"nombre", "creacion", "modificacion"}
    /\ descendente \in BOOLEAN
    /\ filtro_idioma \in {Nada, Cad(Str_es)}
    /\ salida_l = [clase |-> "pendiente", v |-> <<>>, e |-> "none"]

\* A run of the script: the listing is retrieved, filtered, sorted and
\* printed; a TypeError of the sort is caught by main, which prints it.
Listar ==
    /\ salida_l.clase = "pendiente"
    /\ salida_l' = listar_cuadernos(notebooks_l, ordenar_por, descendente,
                                    filtro_idioma)
    /\ UNCHANGED <<notebooks_l, ordenar_por, descendente, filtro_idioma>>
    /\ UNCHANGED <<varsGen, varsInv, varsIdioma, varsUrls, varsEscaner, varsDecod,
                   varsEstado, varsCuaderno, varsRepeticion, varsVideo,
                   varsDosVideos, varsEquivalencia>>

\* from_storage or client.notebooks.list() raises: main prints the error.
ConexionFalla ==
    /\ salida_l.clase = "pendiente"
    /\ salida_l' = [clase |-> "error", v |-> <<>>, e |-> "RPCError"]
    /\ UNCHANGED <<notebooks_l, ordenar_por, descendente, filtro_idioma>>
    /\ UNCHANGED <<varsGen, varsInv, varsIdioma, varsUrls, varsEscaner, varsDecod,
                   varsEstado, varsCuaderno, varsRepeticion, varsVideo,
                   varsDosVideos, varsEquivalencia>>

NextListar ==
    \/ Listar
    \/ ConexionFalla

SpecListar == InitListar /\ [][NextListar]_vars

(***************************************************************************)
(* Properties.                                                             *)
(***************************************************************************)

\* The kinds of the list received.
Pedidos == { faltantes[n] : n \in DOMAIN faltantes }

\* Position of kind t in the duplicate-free sequence s.
Pos(s, t) == CHOOSE n \in DOMAIN s : s[n] = t

\* The kinds for which a generation call has been issued.
Despachados == { despachos[n] : n \in DOMAIN despachos }

\* What the run can report for a kind once it is done with it.
Terminales == {"Skipped", "Succeeded", "Rejected", "QuotaExhausted", "Error"}

\* C1: once the generation call of a kind of quota group G has failed with
\* the rate-limit flag, no generation call is issued for a kind of G later
\* in the list, at whatever distance: each such kind is skipped.
C1_GrupoAgotadoOmiteHermanos ==
    \A a, b \in DOMAIN faltantes :
        ( /\ a < b
          /\ GrupoCuota(faltantes[a]) # None
          /\ GrupoCuota(faltantes[a]) = GrupoCuota(faltantes[b])
          /\ estado[faltantes[a]] = "QuotaExhausted" )
        => /\ faltantes[b] \notin Despachados
           /\ estado[faltantes[b]] \in {"NotStarted", "Skipped"}
           /\ (i >= b => estado[faltantes[b]] = "Skipped")

\* Witness of C1: slides was rate-limited and infographic, two places
\* further in the list, was skipped while the kind between them ran.
C1_Witness ==
    /\ pc = "fin"
    /\ Len(faltantes) = 3
    /\ faltantes[1] = "slides"
    /\ faltantes[3] = "infographic"
    /\ estado["slides"] = "QuotaExhausted"
    /\ estado[faltantes[2]] = "Succeeded"
    /\ estado["infographic"] = "Skipped"

C3_ExcepcionCapturada ==
    /\ [](pc # "propagada")
    /\ [](pc = "fin" => \A t \in Pedidos : estado[t] \in Terminales)
    /\ [][ (excepcion = "none" /\ excepcion' # "none")
              => /\ estado'[TipoActual] = "Error"
                 /\ exitosos' = exitosos
                 /\ pc' = "iter"
                 /\ i' = i + 1 ]_vars

\* Witness of C3: the calls of the first two kinds raised and the third kind
\* was still generated.
C3_Witness ==
    /\ pc = "fin"
    /\ Len(faltantes) = 3
    /\ estado[faltantes[1]] = "Error"
    /\ estado[faltantes[2]] = "Error"
    /\ estado[faltantes[3]] = "Succeeded"
    /\ retorno = 1

\* C4: the value returned is the number of kinds reported as succeeded; for
\* [report, slides, infographic] with report succeeded and slides
\* rate-limited, infographic is skipped and the value is 1.
C4_RetornoCuentaExitos ==
    pc = "fin" =>
        /\ retorno = Cardinality({ t \in Pedidos : estado[t] = "Succeeded" })
        /\ ( /\ faltantes = <<"report", "slides", "infographic">>
             /\ estado["report"] = "Succeeded"
             /\ estado["slides"] = "QuotaExhausted" )
           => (estado["infographic"] = "Skipped" /\ retorno = 1)

\* Witness of C4: the scenario of the claim, run to its end.
C4_Witness ==
    /\ pc = "fin"
    /\ faltantes = <<"report", "slides", "infographic">>
    /\ estado["report"] = "Succeeded"
    /\ estado["slides"] = "QuotaExhausted"
    /\ estado["infographic"] = "Skipped"
    /\ retorno = 1

\* C5: a response with status 'failed' never leads to wait_for_completion and
\* is never counted as a success, and it changes the set of exhausted groups
\* only when it carries the rate-limit flag: after a failure of slides
\* without the flag, infographic is not skipped.
C5_FalloSinEsperaNiExito ==
    /\ [][ ( /\ pc = "generar"
             /\ resultado'.clase = "GenerationStatus"
             /\ resultado'.status = "failed" )
           => /\ pc' = "iter"
              /\ WaitForCompletion(TipoActual) \notin enVuelo'
              /\ exitosos' = exitosos
              /\ estado'[TipoActual] \in {"Rejected", "QuotaExhausted"}
              /\ (estado'[TipoActual] = "QuotaExhausted"
                    <=> resultado'.is_rate_limited = "True")
              /\ (cuotas_agotadas' # cuotas_agotadas
                    => resultado'.is_rate_limited = "True") ]_vars
    /\ []( ( /\ estado["slides"] = "Rejected"
             /\ "infographic" \in Pedidos
             /\ Pos(faltantes, "slides") < Pos(faltantes, "infographic") )
           => /\ estado["infographic"] # "Skipped"
              /\ (i >= Pos(faltantes, "infographic")
                    => "infographic" \in Despachados) )

\* Witness of C5: slides failed without the flag and infographic, later in
\* the list, was generated.
C5_Witness ==
    /\ pc = "fin"
    /\ faltantes = <<"slides", "infographic">>
    /\ estado["slides"] = "Rejected"
    /\ estado["infographic"] = "Succeeded"
    /\ cuotas_agotadas = {}

C8_RetardoAntesDeCadaDespacho ==
    IF pc = "retardo"
    THEN Len(despachos) >= 1 /\ retardos = Len(despachos)
    ELSE retardos = (IF Len(despachos) = 0 THEN 0 ELSE Len(despachos) - 1)

\* Witness of C8: of three kinds one was skipped; two calls, one delay.
C8_Witness ==
    /\ pc = "fin"
    /\ faltantes = <<"slides", "infographic", "audio">>
    /\ estado["infographic"] = "Skipped"
    /\ despachos = <<"slides", "audio">>
    /\ retardos = 1

\* C9: a kind goes NotStarted -> (Skipped | Dispatched) and from Dispatched
\* to Succeeded, Rejected, QuotaExhausted or Error; at most one generation
\* call is issued per kind and a kind in a terminal state never changes.
C9_MaquinaPorTipo ==
    /\ [](\A a, b \in DOMAIN despachos : a # b => despachos[a] # despachos[b])
    /\ [][ \A t \in DOMAIN estado :
             estado'[t] # estado[t]
               => \/ /\ estado[t] = "NotStarted"
                     /\ estado'[t] \in {"Skipped", "Dispatched"}
                  \/ /\ estado[t] = "Dispatched"
                     /\ estado'[t] \in
                          {"Succeeded", "Rejected", "QuotaExhausted", "Error"} ]_vars
    /\ [][ \A t \in DOMAIN estado :
             estado[t] \in Terminales
               => (estado'[t] = estado[t] /\ (despachos' # despachos
                                                => TipoActual # t)) ]_vars

\* Witness of C9: three kinds, each dispatched once, each in a terminal
\* state of its own.
C9_Witness ==
    /\ pc = "fin"
    /\ Len(despachos) = 3
    /\ estado[faltantes[1]] = "Rejected"
    /\ estado[faltantes[2]] = "Error"
    /\ estado[faltantes[3]] = "Succeeded"

\* C10: the set of exhausted quota groups only grows during a run.
C10_CuotasSoloCrecen ==
    [][cuotas_agotadas \subseteq cuotas_agotadas']_vars

\* Witness of C10: premium was marked while the first kind was handled and
\* is still marked two kinds later, at the return.
C10_Witness ==
    /\ pc = "fin"
    /\ Len(faltantes) = 3
    /\ faltantes[1] = "slides"
    /\ estado[faltantes[1]] = "QuotaExhausted"
    /\ estado[faltantes[3]] = "QuotaExhausted"
    /\ "premium" \in cuotas_agotadas

\* The quota groups of the kinds that failed with the rate-limit flag in the
\* invocation under way.
MarcadasAhora ==
    { GrupoCuota(t) : t \in { u \in Pedidos : estado[u] = "QuotaExhausted" } }

\* C11: quota exhaustion seen in one invocation does not carry over to the
\* next: inside the loop of any invocation the exhausted groups are only
\* those marked by this invocation, and a kind is skipped only when a kind
\* of its group was rate-limited in this same invocation.
C11_CuotaNoSeHereda ==
    /\ ( \/ pc \in {"iter", "retardo", "generar", "esperando"}
         \/ (pc = "fin" /\ faltantes # <<>>) )
       => cuotas_agotadas \subseteq MarcadasAhora
    /\ \A t \in Pedidos :
         estado[t] = "Skipped"
           => (GrupoCuota(t) # None /\ GrupoCuota(t) \in MarcadasAhora)

\* Witness of C11: an earlier invocation saw premium exhausted, and the
\* second invocation dispatched slides and infographic again.
C11_Witness ==
    /\ invocacion = 2
    /\ "premium" \in previas
    /\ pc = "fin"
    /\ faltantes = <<"slides", "infographic">>
    /\ despachos = <<"slides", "infographic">>
    /\ estado["slides"] = "Succeeded"

\* C12: when the event loop keeps running the coroutine and every external
\* call returns or raises, every run of generar_artefactos eventually
\* returns a success count between 0 and the number of kinds received.
C12_TodaEjecucionRetorna ==
    <>(pc = "fin" /\ retorno \in 0..Len(faltantes))

\* Witness of C12: the first kind raised, the second was rejected, and the
\* run returned 0.
C12_Witness ==
    /\ pc = "fin"
    /\ Len(faltantes) = 2
    /\ estado[faltantes[1]] = "Error"
    /\ estado[faltantes[2]] = "Rejected"
    /\ retorno = 0

\* Variant of ValorDevuelto: the per-kind outcomes travel with the count.
ValorConResultados ==
    [ exitosos |-> retorno,
      outcomes |-> [n \in DOMAIN faltantes |->
                      <<faltantes[n], estado[faltantes[n]]>>] ]

\* return exitosos (return 0 for an empty list): what the caller receives,
\* as the record of the values it carries.
ValorDevuelto == [exitosos |-> retorno]

\* C13 as stated: the returned value carries, with the success count, the
\* ordered map of the outcome of every kind of the list.
C13_DevuelveResultados ==
    pc = "fin" =>
        /\ "outcomes" \in DOMAIN ValorDevuelto
        /\ ValorDevuelto["outcomes"] =
               [n \in DOMAIN faltantes |->
                   <<faltantes[n], estado[faltantes[n]]>>]

\* C13: generar_artefactos returns the success count and nothing else; the
\* per-kind outcomes are printed while the loop runs and are not part of
\* the returned value.
C13_DevuelveSoloLaCuenta ==
    pc = "fin" =>
        ValorDevuelto =
            [exitosos |->
                Cardinality({ n \in DOMAIN faltantes :
                                estado[faltantes[n]] = "Succeeded" })]

\* Witness of C13: a run whose kinds ended in different outcomes returned.
C13_Witness ==
    /\ pc = "fin"
    /\ Len(faltantes) = 3
    /\ estado[faltantes[1]] = "Succeeded"
    /\ estado[faltantes[2]] = "Error"
    /\ estado[faltantes[3]] = "Rejected"
    /\ ValorDevuelto = [exitosos |-> 1]

\* C14: for the synchronous kind mind_map no wait_for_completion is ever
\* issued; the step that answers its generation call counts a success
\* exactly when the result is a dict with non-empty 'mind_map' content, and
\* after an empty or missing result the loop goes on to the next kind.
C14_MindMapSincrono ==
    /\ [](WaitForCompletion("mind_map") \notin enVuelo)
    /\ [][ ( /\ pc = "generar"
             /\ TipoActual = "mind_map"
             /\ resultado'.clase # "unbound" )
           => /\ pc' = "iter"
              /\ i' = i + 1
              /\ enVuelo' = {}
              /\ IF resultado'.clase = "dict" /\ resultado'.mind_map # ""
                 THEN /\ exitosos' = exitosos + 1
                      /\ estado'["mind_map"] = "Succeeded"
                 ELSE /\ exitosos' = exitosos
                      /\ estado'["mind_map"] = "Rejected" ]_vars

\* Witness of C14: mind_map came back empty or without content, was
\* rejected, and the kind after it was generated.
C14_Witness ==
    /\ pc = "fin"
    /\ Len(faltantes) = 2
    /\ faltantes[1] = "mind_map"
    /\ estado["mind_map"] = "Rejected"
    /\ estado[faltantes[2]] = "Succeeded"
    /\ retorno = 1

\* C16: artefacto_tiene_idioma matches by prefix without regard to case: a
\* record with a language matches exactly when the requested language,
\* lower-cased, is a prefix of the record's language, lower-cased; 'es-ES'
\* matches 'es', 'en-US' does not match 'es', and a record with no language
\* (attribute missing, None or empty) matches every requested language.
C16_PrefijoSinDistinguirCaja ==
    coincide # "pendiente" =>
        LET lang == artefacto.language
            n_idi == Len(idioma_filtro)
        IN  /\ (lang.clase = "str" /\ lang.v # <<>>)
                 => ( (coincide = "True")
                        <=> /\ n_idi <= Len(lang.v)
                            /\ \A n \in 1..n_idi :
                                  Minuscula(lang.v[n]) = Minuscula(idioma_filtro[n]) )
            /\ (lang.clase = "str" /\ lang.v = Str_esES /\ idioma_filtro = Str_es)
                 => coincide = "True"
            /\ (lang.clase = "str" /\ lang.v = Str_enUS /\ idioma_filtro = Str_es)
                 => coincide = "False"
            /\ (lang.clase # "str" \/ lang.v = <<>>) => coincide = "True"

\* Witness of C16: a record tagged 'es-ES' was examined for a requested
\* language written 'ES' and matched.
C16_Witness ==
    /\ artefacto.language.clase = "str"
    /\ artefacto.language.v = Str_esES
    /\ idioma_filtro = <<"E", "S">>
    /\ coincide = "True"

\* The raw artifacts the loop has gone through without raising.
Recorridos == 1..(j - 1)

\* The raw artifact at position n is a list of at least 5 elements.
BienFormado(n) ==
    EsLista(artifacts_raw.v[n]) /\ len(artifacts_raw.v[n]) >= 5

\* The same id (ids are compared class first, then value).
MismoId(x, y) == x.clase = y.clase /\ x.v = y.v

Registrable(n) ==
    /\ BienFormado(n)
    /\ EstaCompletado(at(artifacts_raw.v[n], 4))
    /\ Verdadero(extraer_url_de_artefacto_raw(
                     artifacts_raw.v[n], at(artifacts_raw.v[n], 2)))
    /\ Hashable(at(artifacts_raw.v[n], 0))

\* C20 as stated: when _list_raw has answered, a failure while decoding or
\* recording one raw artifact does not abort the batch: every completed,
\* decodable artifact of the listing, before or after the failing one, has
\* its URL in the returned mapping.
C20_FalloNoAbortaElLote ==
    (fase_u = "fin" /\ artifacts_raw.clase = "list") =>
        \A n \in 1..len(artifacts_raw) :
            Registrable(n)
              => \E e \in urls :
                    /\ MismoId(e.id, at(artifacts_raw.v[n], 0))
                    /\ Verdadero(e.url)

\* C15: the snapshot has an entry for every kind at all times; when the
\* listing query of a kind raises, that kind is left with zero records, the
\* other entries are untouched and the scan goes on with the next query; a
\* finished scan has issued the listing query of every kind, in order, and
\* (in common.py) the raw-URL query after them.
C15_FalloDeListadoAislado ==
    /\ [](DOMAIN existentes = TiposEscaner(modulo))
    /\ [](fase = "fin"
            => consultas = OrdenEscaneo(modulo)
                             \o (IF modulo = "common" THEN <<"_list_raw">> ELSE <<>>))
    /\ [][ (consultas' # consultas /\ fallo' # "none")
             => /\ existentes' = existentes
                /\ existentes'[fallo'] = <<>>
                /\ IF k < Len(OrdenEscaneo(modulo))
                   THEN fase' = "listar" /\ k' = k + 1
                   ELSE fase' = (IF modulo = "common" THEN "urls" ELSE "fin") ]_vars

\* Witness of C15: the notebook holds a report in the requested language,
\* the report query raised, and the scan still listed the slides and
\* fetched the URLs.
C15_Witness ==
    /\ fase = "fin"
    /\ modulo = "common"
    /\ idioma = Str_es
    /\ Listado(contenido, "report") = <<[id |-> 1, language |-> Language(Str_esES)]>>
    /\ existentes["report"] = <<>>
    /\ Len(existentes["slides"]) = 1
    /\ urls # {}

\* The record r is in the language idi, or exposes no language attribute.
EnIdiomaOSinIdioma(r, idi) ==
    \/ r.language.clase = "absent"
    \/ /\ r.language.clase = "str"
       /\ startswith(lower(r.language.v), lower(idi))

\* C17 as stated: every record the snapshot keeps for reports, audio and
\* mind maps is in the requested language or exposes no language attribute.
C17_TresTiposFiltrados ==
    \A tipo \in {"report", "audio", "mind_map"} \cap DOMAIN existentes :
        \A n \in DOMAIN existentes[tipo] :
            EnIdiomaOSinIdioma(existentes[tipo][n], idioma)

\* C17: every record the snapshot keeps for reports and audio is in the
\* requested language or exposes no language attribute; mind maps are not
\* filtered: their entry is the whole listing, or empty when the query
\* raised or has not been made.
C17_InformesYAudioFiltrados ==
    /\ \A tipo \in {"report", "audio"} \cap DOMAIN existentes :
         \A n \in DOMAIN existentes[tipo] :
            EnIdiomaOSinIdioma(existentes[tipo][n], idioma)
    /\ "mind_map" \in DOMAIN existentes
         => existentes["mind_map"] \in {<<>>, Listado(contenido, "mind_map")}

\* Witness of C17: of an audio in Spanish and an audio in English, a scan
\* for 'es' kept the first one only.
C17_Witness ==
    /\ fase = "fin"
    /\ modulo = "common"
    /\ idioma = Str_es
    /\ Listado(contenido, "audio") =
          <<[id |-> 1, language |-> Language(Str_esES)],
            [id |-> 2, language |-> Language(Str_enUS)]>>
    /\ existentes["audio"] = <<[id |-> 1, language |-> Language(Str_esES)]>>

\* The kinds of common.py without a language concept.
TiposSinIdioma ==
    {"slides", "infographic", "video", "data_table", "quiz", "flashcards"}

\* C18: in common.py, when the listing query of slides, infographics,
\* video, data tables, quizzes or flashcards returns, the snapshot entry of
\* that kind becomes the full listing, in discovery order, whatever the
\* requested language; the entry is never anything else than that listing
\* or empty.
C18_ListadoCompleto ==
    /\ [](modulo = "common"
            => \A tipo \in TiposSinIdioma :
                  existentes[tipo] \in {<<>>, Listado(contenido, tipo)})
    /\ [][ ( /\ modulo = "common"
             /\ fase = "listar"
             /\ OrdenEscaneo(modulo)[k] \in TiposSinIdioma
             /\ fallo' = "none" )
           => existentes'[OrdenEscaneo(modulo)[k]]
                = Listado(contenido, OrdenEscaneo(modulo)[k]) ]_vars

\* Witness of C18: two slide decks tagged in English, a scan for 'es', and
\* both are in the snapshot, in order.
C18_Witness ==
    /\ fase = "fin"
    /\ modulo = "common"
    /\ idioma = Str_es
    /\ existentes["slides"] =
          <<[id |-> 1, language |-> Language(Str_enUS)],
            [id |-> 2, language |-> Language(Str_enUS)]>>


\* C21: extraer_url_de_artefacto_raw never raises and returns either a URL
\* (a str) or None, whatever the payload and the artifact type.
C21_NuncaLanzaYDevuelveUrlONone ==
    salida_d.clase = "fin" => salida_d.v.clase \in {"None", "str"}


\* A slide-deck payload long enough at both levels.
SlidesConCampo ==
    /\ raw_d.clase = "list"
    /\ Len(raw_d.v) >= 17
    /\ raw_d.v[17].clase = "list"
    /\ Len(raw_d.v[17].v) >= 4

\* x is a str that starts with "http".
EmpiezaPorHttp(x) ==
    /\ x.clase = "str"
    /\ Len(x.v) >= 4
    /\ <<x.v[1], x.v[2], x.v[3], x.v[4]>> = <<"h", "t", "t", "p">>

\* A slide-deck payload one element too short: 16 elements at top level, or
\* a metadata list of 3 elements.
SlidesCorto ==
    /\ raw_d.clase = "list"
    /\ \/ Len(raw_d.v) = 16
       \/ /\ Len(raw_d.v) >= 17
          /\ raw_d.v[17].clase = "list"
          /\ Len(raw_d.v[17].v) = 3

\* C22: for a slide-deck payload the decoder returns artifact[16][3]
\* exactly when it is a str starting with "http", None otherwise, and None
\* (no exception) on a payload one element too short.
C22_SlidesUrlEnPosicionFija ==
    (salida_d.clase = "fin" /\ EsEntero(tipo_d, STUDIO_SLIDE_DECK)) =>
        /\ SlidesConCampo /\ EmpiezaPorHttp(raw_d.v[17].v[4])
             => MismoId(salida_d.v, raw_d.v[17].v[4])
        /\ SlidesConCampo /\ ~EmpiezaPorHttp(raw_d.v[17].v[4])
             => salida_d.v = Nada
        /\ SlidesCorto => salida_d.v = Nada

\* A well-formed slide deck was decoded and its PDF URL returned.
C22_Witness ==
    /\ salida_d.clase = "fin"
    /\ EsEntero(tipo_d, STUDIO_SLIDE_DECK)
    /\ SlidesConCampo
    /\ salida_d.v = Cad(Str_url_u)

\* A slide deck one element too short was decoded.
C22_WitnessCorto ==
    /\ salida_d.clase = "fin"
    /\ EsEntero(tipo_d, STUDIO_SLIDE_DECK)
    /\ SlidesCorto
    /\ Len(raw_d.v) = 17


\* An audio payload with a non-empty media list at [6][5].
AudioConMedios ==
    /\ raw_d.clase = "list"
    /\ Len(raw_d.v) >= 7
    /\ raw_d.v[7].clase = "list"
    /\ Len(raw_d.v[7].v) >= 6
    /\ raw_d.v[7].v[6].clase = "list"
    /\ raw_d.v[7].v[6].v # <<>>

\* The positions of the entries of the media list ml declaring the MIME
\* type mime at their third field.
ConMime(ml, mime) ==
    { n \in 1..Len(ml) : /\ ml[n].clase = "list"
                         /\ Len(ml[n].v) >= 3
                         /\ ml[n].v[3].clase = "str"
                         /\ ml[n].v[3].v = mime }

\* The value decoded is the first field of the first entry of ml with the
\* MIME type, of the first entry of ml when no entry has it, and None when
\* that first entry is no list or is empty.
EligeMedio(ml, mime) ==
    /\ \A n \in ConMime(ml, mime) :
         (\A m \in ConMime(ml, mime) : n <= m)
             => MismoId(salida_d.v, ml[n].v[1])
    /\ ConMime(ml, mime) = {} =>
         IF ml[1].clase = "list" /\ ml[1].v # <<>>
         THEN MismoId(salida_d.v, ml[1].v[1])
         ELSE salida_d.v = Nada

\* C23: for an audio payload the decoder returns the URL field of the first
\* media entry whose MIME type is "audio/mp4", wherever it is in the media
\* list, and the URL field of the first media entry only when no entry has
\* that MIME type.
C23_AudioPrefiereAudioMp4 ==
    (salida_d.clase = "fin" /\ EsEntero(tipo_d, STUDIO_AUDIO)
        /\ AudioConMedios)
    => EligeMedio(raw_d.v[7].v[6].v, Str_audio_mp4)

\* The audio/mp4 entry came second, after an entry of another URL and no
\* MIME type, and its URL was returned.
C23_Witness ==
    /\ salida_d.clase = "fin"
    /\ EsEntero(tipo_d, STUDIO_AUDIO)
    /\ AudioConMedios
    /\ raw_d.v[7].v[6].v = <<Lis(<<Cad(Str_url_u), Nada, Nada>>),
                             Lis(<<Cad(Str_url_w), Nada, Cad(Str_audio_mp4)>>)>>
    /\ salida_d.v = Cad(Str_url_w)

\* No entry had the MIME type and the first entry's URL was returned.
C23_WitnessSinMime ==
    /\ salida_d.clase = "fin"
    /\ EsEntero(tipo_d, STUDIO_AUDIO)
    /\ AudioConMedios
    /\ ConMime(raw_d.v[7].v[6].v, Str_audio_mp4) = {}
    /\ Len(raw_d.v[7].v[6].v) = 2
    /\ salida_d.v = Cad(Str_url_w)


\* A video payload with a metadata list at [8].
VideoConMetadatos ==
    /\ raw_d.clase = "list"
    /\ Len(raw_d.v) >= 9
    /\ raw_d.v[9].clase = "list"

\* The positions of the sub-lists of the metadata list md whose first
\* element is a list beginning with an http(s) str.
ConUrls(md) ==
    { n \in 1..Len(md) : /\ md[n].clase = "list"
                         /\ md[n].v # <<>>
                         /\ md[n].v[1].clase = "list"
                         /\ md[n].v[1].v # <<>>
                         /\ EmpiezaPorHttp(md[n].v[1].v[1]) }

\* C24: for a video payload the decoder takes the first sub-list of the
\* metadata whose first element is a list beginning with an http(s) str,
\* and returns the URL field of its first entry with MIME type "video/mp4",
\* otherwise the URL field of its first entry; without such a sub-list it
\* returns None.
C24_VideoPrimeraSublistaConUrl ==
    (salida_d.clase = "fin" /\ EsEntero(tipo_d, STUDIO_VIDEO)
        /\ VideoConMetadatos)
    => LET md == raw_d.v[9].v
       IN  /\ ConUrls(md) = {} => salida_d.v = Nada
           /\ \A n \in ConUrls(md) :
                (\A m \in ConUrls(md) : n <= m)
                    => EligeMedio(md[n].v, Str_video_mp4)

\* The sub-list with the URLs came second, after a list that begins with no
\* URL, and its video/mp4 entry came second too; that entry's URL was
\* returned.
C24_Witness ==
    /\ salida_d.clase = "fin"
    /\ EsEntero(tipo_d, STUDIO_VIDEO)
    /\ VideoConMetadatos
    /\ raw_d.v[9].v =
         <<Lis(<<Lis(<<Ent(5), Nada, Cad(Str_video_mp4)>>)>>),
           Lis(<<Lis(<<Cad(Str_url_w), Nada, Nada>>),
                 Lis(<<Cad(Str_url_u), Nada, Cad(Str_video_mp4)>>)>>)>>
    /\ salida_d.v = Cad(Str_url_u)

\* The sub-list held no video/mp4 entry and its first entry's URL was
\* returned.
C24_WitnessSinMime ==
    /\ salida_d.clase = "fin"
    /\ EsEntero(tipo_d, STUDIO_VIDEO)
    /\ VideoConMetadatos
    /\ raw_d.v[9].v = <<Nada, Lis(<<Lis(<<Cad(Str_url_w), Nada, Nada>>)>>)>>
    /\ salida_d.v = Cad(Str_url_w)


\* The element e of an infographic payload has the shape the claim
\* describes: a list whose third element is a non-empty list, whose first
\* sub-element is a list of at least two fields, the second of which is a
\* list beginning with an http(s) str.
FormaDescrita(e) ==
    /\ e.clase = "list"
    /\ Len(e.v) >= 3
    /\ e.v[3].clase = "list"
    /\ e.v[3].v # <<>>
    /\ e.v[3].v[1].clase = "list"
    /\ Len(e.v[3].v[1].v) >= 2
    /\ e.v[3].v[1].v[2].clase = "list"
    /\ e.v[3].v[1].v[2].v # <<>>
    /\ EmpiezaPorHttp(e.v[3].v[1].v[2].v[1])

\* The same shape, and the element's first element is a list.
FormaExigida(e) == FormaDescrita(e) /\ e.v[1].clase = "list"

\* The value decoded is the URL of the last element of the payload that
\* satisfies Forma, None when no element does.
UltimoConForma(Forma(_)) ==
    LET con == { n \in 1..Len(raw_d.v) : Forma(raw_d.v[n]) }
    IN  /\ con = {} => salida_d.v = Nada
        /\ \A n \in con :
             (\A m \in con : m <= n)
                 => MismoId(salida_d.v, raw_d.v[n].v[3].v[1].v[2].v[1])

\* C25 as stated: the decoder returns the URL of the first element, in
\* reverse order, of the described shape, and nothing else about the
\* element decides the match.
C25_SoloLaFormaDescrita ==
    (salida_d.clase = "fin" /\ EsEntero(tipo_d, STUDIO_INFOGRAPHIC)
        /\ raw_d.clase = "list")
    => UltimoConForma(FormaDescrita)

\* C25 amended: the decoder returns the URL of the first element, in
\* reverse order, that has the described shape and whose first element is
\* a list; an element whose first element is no list is skipped.
C25_FormaYPrimerElementoLista ==
    (salida_d.clase = "fin" /\ EsEntero(tipo_d, STUDIO_INFOGRAPHIC)
        /\ raw_d.clase = "list")
    => UltimoConForma(FormaExigida)

\* The last element had the described shape but no list at [0]: it was
\* skipped and the URL of the element before it was returned.
C25_Witness ==
    /\ salida_d.clase = "fin"
    /\ EsEntero(tipo_d, STUDIO_INFOGRAPHIC)
    /\ raw_d = Lis(<<ItemInfografia(Lis(<<>>), Lis(<<Cad(Str_url_w)>>)),
                     ItemInfografia(Nada, Lis(<<Cad(Str_url_u)>>))>>)
    /\ salida_d.v = Cad(Str_url_w)

\* Two elements held a URL and the later one's was returned.
C25_WitnessReverso ==
    /\ salida_d.clase = "fin"
    /\ EsEntero(tipo_d, STUDIO_INFOGRAPHIC)
    /\ raw_d = Lis(<<ItemInfografia(Lis(<<>>), Lis(<<Cad(Str_url_w)>>)),
                     ItemInfografia(Lis(<<>>), Lis(<<Cad(Str_url_u)>>))>>)
    /\ salida_d.v = Cad(Str_url_u)


\* The sequence s lists exactly the kinds of S, each once, in canonical
\* order.
ListaCanonicaDe(s, S) ==
    /\ { s[n] : n \in DOMAIN s } = S
    /\ Len(s) = Cardinality(S)
    /\ \A a, b \in DOMAIN s :
         a < b => Pos(ORDEN_ARTEFACTOS(modulo), s[a])
                    < Pos(ORDEN_ARTEFACTOS(modulo), s[b])

\* C26: the first list returned holds exactly the kinds without a record in
\* the snapshot, in canonical order; the second exactly those of them that
\* have a daily quota; a kind with a record is in neither.
C26_FaltantesYConLimite ==
    (salida_e.clase = "return" /\ snapshot.clase = "dict") =>
        LET sin == { t \in DOMAIN snapshot.v : Len(snapshot.v[t]) = 0 }
            con_cuota == { t \in sin : TIPOS_ARTEFACTOS(modulo)[t] }
        IN  /\ ListaCanonicaDe(salida_e.v.faltantes, sin)
            /\ ListaCanonicaDe(salida_e.v.faltantes_con_limite, con_cuota)

\* A snapshot with records for some kinds and none for a quota-limited kind
\* and for a kind without quota was shown.
C26_Witness ==
    /\ salida_e.clase = "return"
    /\ modulo = "common"
    /\ Len(snapshot.v["audio"]) = 2
    /\ salida_e.v.faltantes = <<"report", "slides", "video">>
    /\ salida_e.v.faltantes_con_limite = <<"slides", "video">>


\* C27: for a notebook id that exists, procesar_cuaderno obtains the
\* snapshot, shows the state of every kind through
\* mostrar_estado_artefactos and returns True.
C27_CuadernoExistenteDevuelveTrue ==
    (pc_c = "fin" /\ notebook_id \in cuadernos) =>
        /\ retorno_c = [clase |-> "return", v |-> TRUE]
        /\ salida_e.clase = "return"
        /\ { salida_e.v.tabla[n].tipo : n \in DOMAIN salida_e.v.tabla }
             = DOMAIN TIPOS_ARTEFACTOS("common")


\* C28: the second of two scans in a row, with no generation in between and
\* the service as it was, returns what the first returned: the same kinds,
\* the same record ids in the same order, the same filtered set, the same
\* URL mapping.
C28_EscaneoIdempotente ==
    (llamada = 2 /\ fase = "fin") =>
        /\ DOMAIN existentes = DOMAIN primera.existentes
        /\ \A t \in DOMAIN existentes : existentes[t] = primera.existentes[t]
        /\ urls = primera.urls

\* The second scan returned: the notebook holds a report in the requested
\* language, which both snapshots keep, and one in another language, which
\* both leave out, and a URL was mapped.
C28_Witness ==
    /\ llamada = 2
    /\ fase = "fin"
    /\ modulo = "common"
    /\ Len(Listado(contenido, "report")) = 2
    /\ Len(existentes["report"]) = 1
    /\ urls # {}


\* C29: when adding the video source to the new notebook times out or
\* raises, procesar_video goes on: generar_artefactos runs to its return on
\* the requested kinds, in canonical order, and procesar_video returns
\* True.
C29_AvisoDeFuenteNoEsFatal ==
    /\ [](fuente_v = "aviso" /\ pc_v = "fin" =>
            /\ retorno_v = [clase |-> "return", v |-> TRUE]
            /\ pc = "fin"
            /\ faltantes = ListaDelLlamador("main", solicitados_v)
            /\ retorno \in 0..Len(faltantes))
    /\ (fuente_v = "aviso") ~>
            (pc_v = "fin" /\ retorno_v = [clase |-> "return", v |-> TRUE])

\* Adding the source raised, the generation issued its calls, and
\* procesar_video returned True.
C29_Witness ==
    /\ fuente_v = "aviso"
    /\ origen_v = "nuevo"
    /\ pc_v = "fin"
    /\ retorno_v = [clase |-> "return", v |-> TRUE]
    /\ Len(despachos) >= 2


\* C30: in the module that runs, ORDEN_ARTEFACTOS names every key of
\* TIPOS_ARTEFACTOS exactly once and nothing else, and every kind without a
\* daily quota comes before every kind with one.
C30_OrdenCanonicoTotal ==
    LET orden == ORDEN_ARTEFACTOS(modulo)
        tipos == TIPOS_ARTEFACTOS(modulo)
    IN  /\ { orden[n] : n \in DOMAIN orden } = DOMAIN tipos
        /\ \A a, b \in DOMAIN orden : orden[a] = orden[b] => a = b
        /\ \A a, b \in DOMAIN orden :
             (~tipos[orden[a]] /\ tipos[orden[b]]) => a < b

\* The state loop ran over a snapshot without records: every kind of the
\* registry is missing, and the quota-limited ones are the tail of the
\* order.
C30_Witness ==
    /\ salida_e.clase = "return"
    /\ modulo = "common"
    /\ salida_e.v.faltantes = ORDEN_ARTEFACTOS("common")
    /\ salida_e.v.faltantes_con_limite =
         SubSeq(ORDEN_ARTEFACTOS("common"), 4, 9)

(***************************************************************************)
(* C31: the generation calls of mind_map, quiz and flashcards carry no      *)
(* language parameter; the generation call of every other kind carries     *)
(* the language code the run was asked for.                                *)
(***************************************************************************)
C31_IdiomaEnLasLlamadas ==
    /\ Len(kwargs_enviados) = Len(despachos)
    /\ \A n \in DOMAIN despachos :
         IF despachos[n] \in {"mind_map", "quiz", "flashcards"}
         THEN \A par \in kwargs_enviados[n] : par[1] # "language"
         ELSE kwargs_enviados[n] = {<<"language", idioma_g>>}

\* A run in a language other than the default has issued the call of a
\* kind without language and then the call of a kind with it.
C31_Witness ==
    /\ idioma_g = Str_EN
    /\ despachos = <<"quiz", "report">>
    /\ kwargs_enviados = <<{}, {<<"language", Str_EN>>}>>

(***************************************************************************)
(* C32: for a notebook found, procesar_video and procesar_cuaderno issue a  *)
(* generation call for a kind only if the kind was requested and the scan  *)
(* of the same run found no matching record of it; without an artifact     *)
(* flag ver_cuaderno issues no generation call.                            *)
(***************************************************************************)
C32_SoloSolicitadosQueFaltan ==
    /\ origen_v = "existente" =>
         \A n \in DOMAIN despachos :
            /\ despachos[n] \in solicitados_v
            /\ fase = "fin"
            /\ existentes[despachos[n]] = <<>>
    /\ pc_c # "inactivo" =>
         /\ \A n \in DOMAIN despachos :
               /\ despachos[n] \in solicitados_c
               /\ fase = "fin"
               /\ existentes[despachos[n]] = <<>>
         /\ pc_c = "generar" =>
               /\ salida_e.clase = "return"
               /\ \E t \in solicitados_c : existentes[t] = <<>>
         /\ solicitados_c = {} => (despachos = <<>> /\ pc_c # "generar")

\* procesar_video found a notebook that holds a report; every kind was
\* requested, and the calls issued are those of the three kinds missing.
C32_Witness ==
    /\ origen_v = "existente"
    /\ solicitados_v = {"report", "slides", "infographic", "audio"}
    /\ existentes["report"] # <<>>
    /\ despachos = <<"slides", "infographic", "audio">>

(***************************************************************************)
(* C33: when the listing holds a notebook whose title starts with          *)
(* 'YT-<video_id>', procesar_video calls neither notebooks.create nor      *)
(* sources.add_url; so two runs for the same video URL, the listing of the *)
(* second holding what the first created, create at most one notebook.     *)
(***************************************************************************)

\* The notebooks the runs so far have created.
CreadosHastaAhora ==
    Len(creados_antes) + (IF origen_v = "nuevo" THEN 1 ELSE 0)

\* The listing of the run under way holds a notebook of the video.
YaExiste ==
    /\ Verdadero(extraer_video_id(url_texto))
    /\ buscar_cuaderno_existente(TitulosEnElServicio, extraer_video_id(url_texto)) # 0

\* With a notebook of the video in the listing, no notebook is created and
\* no source is added.
C33_ExistenteNiCreaNiAnade ==
    (pc_v # "inactivo" /\ YaExiste) =>
        /\ "create" \notin contactos
        /\ "add_url" \notin contactos
        /\ origen_v # "nuevo"

C33_UnSoloCuadernoPorVideo ==
    /\ C33_ExistenteNiCreaNiAnade
    /\ pc_v # "inactivo" => CreadosHastaAhora <= 1

(***************************************************************************)
(* C34: when the video id cannot be extracted from the URL, or the         *)
(* extraction of the metadata raises, procesar_video returns False and     *)
(* has issued no call to NotebookLM: no listing, creation, add-source,     *)
(* scan query or generation call.                                          *)
(***************************************************************************)

\* No call to the NotebookLM client has been issued by the run under way.
SinContacto ==
    /\ contactos = {}
    /\ consultas = <<>>
    /\ despachos = <<>>
    /\ enVuelo = {}
    /\ origen_v = "ninguno"
    /\ fuente_v = "pendiente"

C34_SinIdOSinMetadatosDevuelveFalse ==
    (pc_v # "inactivo"
       /\ (~Verdadero(extraer_video_id(url_texto)) \/ metadatos_v = "error")) =>
        /\ SinContacto
        /\ pc_v \in {"inicio", "fin"}
        /\ pc_v = "fin" => retorno_v = [clase |-> "return", v |-> FALSE]

\* The metadata extraction of a valid URL raised and the run has returned.
C34_Witness ==
    /\ pc_v = "fin"
    /\ Verdadero(extraer_video_id(url_texto))
    /\ metadatos_v = "error"
    /\ retorno_v = [clase |-> "return", v |-> FALSE]

\* A URL of another host has been given and the run has returned.
C34_WitnessUrl ==
    /\ pc_v = "fin"
    /\ url_texto.hostname = "example.com"
    /\ extraer_video_id(url_texto) = Nada
    /\ retorno_v = [clase |-> "return", v |-> FALSE]

(***************************************************************************)
(* C35: on every list of the kinds report, slides, infographic and audio,  *)
(* generar_artefactos of main.py and generar_artefactos of common.py issue *)
(* the same sequence of generate and wait_for_completion calls and return  *)
(* the same count, when the service gives the same answers.                *)
(***************************************************************************)
C35_MismasLlamadasYMismaCuenta ==
    salida_q.clase = "fin" =>
        /\ salida_q.main.llamadas = salida_q.common.llamadas
        /\ salida_q.main.retorno = salida_q.common.retorno

\* Audio failed by its rate limit, which common.py records under None and
\* main.py does not record; the report after it was generated, waited for
\* and counted by both.
C35_Witness ==
    /\ salida_q.clase = "fin"
    /\ lista_q = <<"audio", "report">>
    /\ guion.generar[1].clase = "GenerationStatus"
    /\ EsFallo(guion.generar[1]) /\ LimiteAlcanzado(guion.generar[1])
    /\ salida_q.common.llamadas =
          <<LlamadaGenerar("common", "audio"), LlamadaGenerar("common", "report"),
            LlamadaEsperar("report")>>
    /\ salida_q.main.retorno = 1


\* The kinds extraer_url_de_artefacto_raw has a branch for.
TiposDecodificables ==
    { Ent(STUDIO_AUDIO), Ent(STUDIO_VIDEO), Ent(STUDIO_INFOGRAPHIC),
      Ent(STUDIO_SLIDE_DECK) }

\* C36: for each of the four decodable kinds and every payload, a result of
\* extraer_url_de_artefacto_raw other than None is a str that starts with
\* "http".
C36_ResultadoNoNoneEmpiezaPorHttp ==
    (/\ salida_d.clase = "fin"
     /\ tipo_d \in TiposDecodificables
     /\ salida_d.v.clase # "None")
        => EsHttp(salida_d.v)


\* C37: an asynchronous kind is counted as succeeded only by the return of
\* wait_for_completion for the task identifier its response carried; a
\* response of None, or one that is neither failed nor carries a task
\* identifier, is not counted.
C37_ExitoSoloTrasLaEspera ==
    [][ ( /\ pc \in {"generar", "esperando"}
          /\ TipoActual \notin ARTEFACTOS_SINCRONOS(modulo)
          /\ exitosos' > exitosos )
        => /\ pc = "esperando"
           /\ RequiereEspera(resultado)
           /\ WaitForCompletion(TipoActual) \in enVuelo ]_vars


\* The kind at position n of the list has a quota group, and an earlier
\* kind of the list of that same group failed with a rate limit.
GrupoAgotadoPorLosSuyos(n) ==
    /\ GrupoCuota(faltantes[n]) # None
    /\ \E a \in 1..(n - 1) :
        /\ GrupoCuota(faltantes[a]) = GrupoCuota(faltantes[n])
        /\ estado[faltantes[a]] = "QuotaExhausted"

\* C38: a rate-limited failure of a kind without quota group causes no
\* other kind to be skipped: every kind the loop has passed was dispatched,
\* unless its own group was exhausted by an earlier kind of that group.
C38_SinGrupoNoOmiteAOtros ==
    pc \in {"iter", "retardo", "generar", "esperando", "fin"}
        => \A n \in 1..i :
            \/ GrupoAgotadoPorLosSuyos(n)
            \/ /\ estado[faltantes[n]] # "Skipped"
               /\ \E d \in DOMAIN despachos : despachos[d] = faltantes[n]

\* Witness of C38: in common.py audio, a kind without group, failed with a
\* rate limit (None is in the set) and video, the next kind without group,
\* was dispatched and completed.
C38_Witness ==
    /\ pc = "fin"
    /\ modulo = "common"
    /\ faltantes = <<"audio", "video">>
    /\ estado["audio"] = "QuotaExhausted"
    /\ estado["video"] = "Succeeded"
    /\ despachos = <<"audio", "video">>


\* The identifiers of the quota groups: the values of CUOTA_COMPARTIDA.
GruposDeCuota == { CUOTA_COMPARTIDA[t] : t \in DOMAIN CUOTA_COMPARTIDA }

\* C40: cuotas_agotadas holds only identifiers of quota groups at every
\* point of a run, so that the rate-limited failure of a kind without
\* group has added nothing to it.
C40_SoloGruposReales ==
    cuotas_agotadas \subseteq GruposDeCuota


\* The keys of the listing printed are in the order asked for.
ListadoEnOrden ==
    \A a, b \in DOMAIN salida_l.v :
        a < b =>
            LET ka == obtener_fecha_para_ordenar(salida_l.v[a], ordenar_por)
                kb == obtener_fecha_para_ordenar(salida_l.v[b], ordenar_por)
            IN  /\ Comparables(ka, kb)
                /\ IF descendente THEN ~MenorQue(ka, kb) ELSE ~MenorQue(kb, ka)

\* C39: with --ordenar creacion or modificacion and no language filter, a
\* run that retrieved notebooks lists every one of them, ordered by that
\* date, without failing, whatever the dates are: datetime, ISO text with or
\* without time zone, unparseable text, or missing.
C39_ListaTodosOrdenadosPorFecha ==
    (/\ salida_l.clase # "pendiente"
     /\ salida_l.e # "RPCError"
     /\ ordenar_por \in {"creacion", "modificacion"}
     /\ filtro_idioma = Nada
     /\ notebooks_l # <<>>)
        => /\ salida_l.clase = "listado"
           /\ Len(salida_l.v) = Len(notebooks_l)
           /\ \A nb \in Cuadernos :
                Cardinality({ n \in DOMAIN salida_l.v : salida_l.v[n] = nb })
                  = Cardinality({ n \in DOMAIN notebooks_l : notebooks_l[n] = nb })
           /\ ListadoEnOrden

====
